---- MODULE Spec2Model ----
(***************************************************************************)
(* A model of librustbelt: the analysis engine (RustAnalyzerish), its      *)
(* cursor validation, the edit applier and the file watcher task.          *)
(*                                                                         *)
(* File contents are sequences of one-byte characters over Chars; a FileId *)
(* is identified with the path the VFS issued it for.                      *)
(***************************************************************************)
EXTENDS Integers, Sequences, FiniteSets, TLC

VARIABLES
    cText,      \* SpecCursor: the file content the LineIndex is built from
    cCursor,    \* SpecCursor: the CursorCoordinates under test
    cResult,    \* SpecCursor: result of validate_and_convert_cursor
    ePlan,      \* SpecEdit: the RenameResult handed to apply_rename_edits
    eDisk0,     \* SpecEdit: the files on disk when the first call started
    eDisk1,     \* SpecEdit: the files on disk when the current call started
    eDisk,      \* SpecEdit: the files on disk now
    eIdx,       \* SpecEdit: index of the file_change the loop is at
    eOut,       \* SpecEdit: Running, or what the call ended with
    eLog,       \* SpecEdit: the fs::write calls of the current call that wrote
    ePass,      \* SpecEdit: 1 for the first call with ePlan, 2 for the second
    root,       \* Spec: RustAnalyzerish.current_project_root
    vfs,        \* Spec: RustAnalyzerish.vfs, path -> content or Absent
    host,       \* Spec: the files of RustAnalyzerish.host's database
    disk,       \* Spec: the file system, path -> content or Missing
    loads,      \* Spec: number of load_workspace_at calls that succeeded
    loadCalls,  \* Spec: number of load_workspace calls made
    watcher,    \* Spec: "none", or "running" once the watcher task is spawned
    chan,       \* Spec: the watcher's channel of loader messages
    wpc,        \* Spec: the watcher task is "idle" or about to "apply"
    wchange,    \* Spec: the change the watcher task has collected in a tick
    qn,         \* Spec: number of queries made on the engine
    writes,     \* Spec: number of writes made by other programs
    hung,       \* Spec: the engine is blocked in a call that cannot return
    last,       \* Spec: the latest query, its inputs and what it returned
    wrote,      \* Spec: path -> what rename_symbol wrote there, if still there
    wroteAt,    \* Spec: the number of the query that last filled wrote
    staged,     \* Spec: the files with a change staged in the VFS
    rText,      \* SpecResolve: the file content given to resolve_coordinates
    rCursor,    \* SpecResolve: the cursor it is called on
    rChecks,    \* SpecResolve: the build has overflow checks (debug) or not
    rResult,    \* SpecResolve: what the call returned, or Panic
    rFound,     \* SpecResolve: find_symbol_in_tolerance_box returned Some
    wVfs,       \* SpecWatch: the Vfs shared with the watcher task
    wHost,      \* SpecWatch: what the AnalysisHost was last given for each file
    wChan,      \* SpecWatch: the loader messages waiting in the channel
    wTask,      \* SpecWatch: where the watcher task is in its loop
    wFiles,     \* SpecWatch: kind and remaining files of the message in hand
    wHas,       \* SpecWatch: has_changes of the tick in progress
    wChange,    \* SpecWatch: change of the tick in progress, in push order
    wDropped,   \* SpecWatch: the FileWatcher has been dropped
    wMulti,     \* SpecWatch: the runtime has worker threads, or is current-thread
    wSent,      \* SpecWatch: number of messages the notify thread has sent
    wApplies,   \* SpecWatch: number of host.apply_change calls made
    wConsumed,  \* SpecWatch: the (path, contents) received in the tick in progress
    wVfs0,      \* SpecWatch: the Vfs when the tick in progress began
    wHost0,     \* SpecWatch: the host when the tick in progress began
    wTick,      \* SpecWatch: whether the tick in progress, or the latest, got messages
    wSeen       \* SpecWatch: what another task read under the two locks

cursorVars == <<cText, cCursor, cResult>>
editVars == <<ePlan, eDisk0, eDisk1, eDisk, eIdx, eOut, eLog, ePass>>

engineVars == <<root, vfs, host, disk, loads, loadCalls, watcher, chan, wpc, wchange,
                qn, writes, hung, last, wrote, wroteAt, staged>>
resolveVars == <<rText, rCursor, rChecks, rResult, rFound>>
watchVars == <<wVfs, wHost, wChan, wTask, wFiles, wHas, wChange, wDropped, wMulti,
               wSent, wApplies, wConsumed, wVfs0, wHost0, wTick, wSeen>>

vars == <<cText, cCursor, cResult,
          ePlan, eDisk0, eDisk1, eDisk, eIdx, eOut, eLog, ePass,
          root, vfs, host, disk, loads, loadCalls, watcher, chan, wpc, wchange,
          qn, writes, hung, last, wrote, wroteAt, staged,
          rText, rCursor, rChecks, rResult, rFound,
          wVfs, wHost, wChan, wTask, wFiles, wHas, wChange, wDropped, wMulti,
          wSent, wApplies, wConsumed, wVfs0, wHost0, wTick, wSeen>>

-----------------------------------------------------------------------------
(* Bounds of the model *)

MaxLen == 3         \* longest file content of SpecCursor, in bytes
MaxCoord == 4       \* largest line / column of a cursor of SpecCursor

-----------------------------------------------------------------------------
(* Text and LineIndex *)

NL == "\n"
Chars == {"a", "b", NL}

None == -1          \* Option::None of an Option<TextSize>

RECURSIVE TextsOfLen(_)
TextsOfLen(n) ==
    IF n = 0 THEN {<<>>}
    ELSE {Append(t, c) : t \in TextsOfLen(n - 1), c \in Chars}

TextsUpTo(n) == UNION {TextsOfLen(k) : k \in 0..n}

\* LineIndex::new: the byte offsets at which lines start (0, and the offset
\* just after every "\n"), in increasing order.
RECURSIVE LineStartsFrom(_, _)
LineStartsFrom(text, i) ==
    IF i > Len(text) THEN <<>>
    ELSE IF text[i] = NL THEN <<i>> \o LineStartsFrom(text, i + 1)
    ELSE LineStartsFrom(text, i + 1)

LineStarts(text) == <<0>> \o LineStartsFrom(text, 1)

\* LineIndex::offset(LineCol {line, col}), 0-based: Some(start of line + col)
\* when the line exists, None otherwise. The column is added unchecked.
LineIndexOffset(text, line0, col0) ==
    IF line0 < Len(LineStarts(text))
    THEN LineStarts(text)[line0 + 1] + col0
    ELSE None

\* u32::saturating_sub(1)
SatSub1(n) == IF n = 0 THEN 0 ELSE n - 1

\* Length in bytes of 0-based line line0, its "\n" excluded.
LineLen(text, line0) ==
    LET starts == LineStarts(text)
        s == starts[line0 + 1]
        e == IF line0 + 1 < Len(starts) THEN starts[line0 + 2] - 1 ELSE Len(text)
    IN e - s

\* The 0-based position (line0, col0) is a position of the file: the line
\* exists and the column is on it (the end of the line included).
InFile(text, line0, col0) ==
    /\ line0 < Len(LineStarts(text))
    /\ col0 <= LineLen(text, line0)

-----------------------------------------------------------------------------
(* Cursor validation: RustAnalyzerish::validate_and_convert_cursor *)

Ok(v) == [tag |-> "Ok", val |-> v]
Err(k) == [tag |-> "Err", kind |-> k]
NoResult == [tag |-> "NoResult"]

\* impl From<&CursorCoordinates> for LineCol
CursorToLineCol(cursor) ==
    [line |-> SatSub1(cursor.line), col |-> SatSub1(cursor.column)]

validate_and_convert_cursor(cursor, text) ==
    IF cursor.line = 0 \/ cursor.column = 0
    THEN Err("InvalidCoordinates")
    ELSE LET lc == CursorToLineCol(cursor)
             off == LineIndexOffset(text, lc.line, lc.col)
         IN IF off = None THEN Err("OutOfBounds") ELSE Ok(off)

Cursors == [line : 0..MaxCoord, column : 0..MaxCoord]

CursorInit ==
    /\ cText \in TextsUpTo(MaxLen)
    /\ cCursor \in Cursors
    /\ cResult = NoResult

CursorIdle ==
    /\ cText = <<>>
    /\ cCursor = [line |-> 1, column |-> 1]
    /\ cResult = NoResult

ValidateAndConvert ==
    /\ cResult = NoResult
    /\ cResult' = validate_and_convert_cursor(cCursor, cText)
    /\ UNCHANGED <<cText, cCursor>>
    /\ UNCHANGED editVars
    /\ UNCHANGED engineVars
    /\ UNCHANGED resolveVars
    /\ UNCHANGED watchVars

\* The caller moves on to another cursor of the same file.
NextCursor ==
    /\ cResult # NoResult
    /\ cCursor' \in Cursors
    /\ cResult' = NoResult
    /\ UNCHANGED cText
    /\ UNCHANGED editVars
    /\ UNCHANGED engineVars
    /\ UNCHANGED resolveVars
    /\ UNCHANGED watchVars


-----------------------------------------------------------------------------
(* The edit applier: RustAnalyzerish::apply_rename_edits and               *)
(* RustAnalyzerUtils::apply_rename_edits / apply_file_change (same body)   *)

Missing == <<"ENOENT">>  \* no readable file at the path (not a content)
Panic == [tag |-> "Panic"]
Running == [tag |-> "Running"]

\* RustAnalyzerish::line_col_to_offset_with_index (1-based line and column)
line_col_to_offset_with_index(text, line, column) ==
    LineIndexOffset(text, SatSub1(line), SatSub1(column))

\* Order of Indels in TextEditBuilder: sort_by_key (delete.start, delete.end)
IndelKeyLe(a, b) == a.s < b.s \/ (a.s = b.s /\ a.e <= b.e)

\* push and stable sort: the new Indel lands after the Indels whose key is
\* not greater than its own.
IndelPushSorted(indels, x) ==
    LET n == Cardinality({i \in 1..Len(indels) : IndelKeyLe(indels[i], x)})
    IN SubSeq(indels, 1, n) \o <<x>> \o SubSeq(indels, n + 1, Len(indels))

\* check_disjoint_and_sort, on the sorted Indels
IndelsDisjointOrEqual(indels) ==
    \A i \in 1..(Len(indels) - 1) :
        indels[i].e <= indels[i + 1].s \/ indels[i] = indels[i + 1]

\* The loop over file_change.edits: both endpoints through the LineIndex,
\* TextRange::new (asserts start <= end), builder.replace (asserts that the
\* Indels are disjoint or equal). Ok(sorted Indels), Err or Panic.
RECURSIVE BuildIndels(_, _, _, _)
BuildIndels(text, edits, i, acc) ==
    IF i > Len(edits) THEN Ok(acc)
    ELSE LET e == edits[i]
             so == line_col_to_offset_with_index(text, e.line, e.column)
             eo == line_col_to_offset_with_index(text, e.end_line, e.end_column)
             pushed == IndelPushSorted(acc, [s |-> so, e |-> eo, ins |-> e.new_text])
         IN IF so = None \/ eo = None THEN Err("InvalidEditPosition")
            ELSE IF so > eo THEN Panic
            ELSE IF ~IndelsDisjointOrEqual(pushed) THEN Panic
            ELSE BuildIndels(text, edits, i + 1, pushed)

\* coalesce_indels: an Indel that ends where the next one starts absorbs it.
RECURSIVE CoalesceFrom(_, _)
CoalesceFrom(cur, rest) ==
    IF rest = <<>> THEN <<cur>>
    ELSE IF cur.e = Head(rest).s
         THEN CoalesceFrom([s |-> cur.s, e |-> Head(rest).e,
                            ins |-> cur.ins \o Head(rest).ins], Tail(rest))
         ELSE <<cur>> \o CoalesceFrom(Head(rest), Tail(rest))

coalesce_indels(indels) ==
    IF indels = <<>> THEN <<>> ELSE CoalesceFrom(Head(indels), Tail(indels))

\* String::replace_range(s..e, ins), offsets 0-based
ReplaceRange(text, s, e, ins) ==
    SubSeq(text, 1, s) \o ins \o SubSeq(text, e + 1, Len(text))

\* TextEdit::apply: the Indels from the last to the first, each by
\* replace_range, which panics on a range that leaves the string.
RECURSIVE ApplyIndelsFrom(_, _, _)
ApplyIndelsFrom(text, indels, i) ==
    IF i = 0 THEN Ok(text)
    ELSE IF indels[i].e > Len(text) THEN Panic
    ELSE ApplyIndelsFrom(
            ReplaceRange(text, indels[i].s, indels[i].e, indels[i].ins),
            indels, i - 1)

RECURSIVE IndelsDelta(_, _)
IndelsDelta(indels, i) ==
    IF i > Len(indels) THEN 0
    ELSE Len(indels[i].ins) - (indels[i].e - indels[i].s) + IndelsDelta(indels, i + 1)

\* TextEdit::apply, with its closing assert_eq! on the length when there
\* are two Indels or more.
TextEditApply(text, indels) ==
    LET r == ApplyIndelsFrom(text, indels, Len(indels))
    IN IF r.tag = "Ok" /\ Len(indels) >= 2
          /\ Len(r.val) # Len(text) + IndelsDelta(indels, 1)
       THEN Panic
       ELSE r

\* One file's edits, from the content read to the content to write:
\* Ok(new content), Err("InvalidEditPosition") or Panic.
EditText(text, edits) ==
    LET b == BuildIndels(text, edits, 1, <<>>)
    IN IF b.tag # "Ok" THEN b ELSE TextEditApply(text, coalesce_indels(b.val))

\* fs::write either writes the whole body, or fails before it touched the
\* file (it could not be opened), or fails after File::create truncated it.
WriteModes == {"ok", "open_failed", "write_failed"}

\* An iteration that writes the file after each edit instead of once.
ApplyFileChangePerEdit(fc, d, wm) ==
    IF d[fc.file_path] = Missing
    THEN [disk |-> d, out |-> Err("FileIORead"), wrote |-> <<>>]
    ELSE LET r == EditText(d[fc.file_path], fc.edits)
         IN IF r.tag # "Ok" THEN [disk |-> d, out |-> r, wrote |-> <<>>]
            ELSE IF wm = "ok"
            THEN [disk |-> [d EXCEPT ![fc.file_path] = r.val],
                  out |-> Running,
                  wrote |-> [i \in 1..Len(fc.edits) |->
                               [path |-> fc.file_path,
                                content |-> EditText(d[fc.file_path],
                                                     SubSeq(fc.edits, 1, i)).val]]]
            ELSE [disk |-> d, out |-> Err("FileIOWrite"), wrote |-> <<>>]

\* One iteration of the loop over rename_result.file_changes: read, build,
\* apply, write. d maps paths to contents; wm is how this write goes.
ApplyFileChange(fc, d, wm) ==
    IF d[fc.file_path] = Missing
    THEN [disk |-> d, out |-> Err("FileIORead"), wrote |-> <<>>]
    ELSE LET r == EditText(d[fc.file_path], fc.edits)
         IN IF r.tag # "Ok" THEN [disk |-> d, out |-> r, wrote |-> <<>>]
            ELSE IF wm = "ok"
            THEN [disk |-> [d EXCEPT ![fc.file_path] = r.val],
                  out |-> Running,
                  wrote |-> <<[path |-> fc.file_path, content |-> r.val]>>]
            ELSE IF wm = "open_failed"
            THEN [disk |-> d, out |-> Err("FileIOWrite"), wrote |-> <<>>]
            ELSE [disk |-> [d EXCEPT ![fc.file_path] = <<>>],
                  out |-> Err("FileIOWrite"), wrote |-> <<>>]


-----------------------------------------------------------------------------
(* SpecEdit: apply_rename_edits on a plan, file_change by file_change, and *)
(* a second call with the same plan once the first has returned Ok         *)

MaxFiles == 2       \* longest plan, in file_changes
MaxPlanEdits == 2   \* most edits in one plan, over all its file_changes

EPaths == {"f", "g"}
ETexts == {<<"a", "b">>, <<"a", NL, "b">>}

TextEdit(l, c, el, ec, t) ==
    [line |-> l, column |-> c, end_line |-> el, end_column |-> ec, new_text |-> t]

\* Representative edits: a rename to a name of the same length, a rename to
\* a longer name, an edit on line 2, an edit that ends past the end of
\* line 1, an insertion at column 4 of line 1, and a reversed range.
EditSet ==
    { TextEdit(1, 1, 1, 2, <<"b">>),
      TextEdit(1, 1, 1, 2, <<"a", "b">>),
      TextEdit(2, 1, 2, 2, <<"a">>),
      TextEdit(1, 2, 1, 3, <<"b">>),
      TextEdit(1, 4, 1, 4, <<"b">>),
      TextEdit(1, 2, 1, 1, <<"b">>) }

RECURSIVE SeqsOfLen(_, _)
SeqsOfLen(S, n) ==
    IF n = 0 THEN {<<>>}
    ELSE {Append(q, x) : q \in SeqsOfLen(S, n - 1), x \in S}

\* The plans of exactly k file_changes holding at most budget edits.
RECURSIVE PlansOf(_, _)
PlansOf(k, budget) ==
    IF k = 0 THEN {<<>>}
    ELSE UNION { { <<[file_path |-> p, edits |-> es]>> \o rest :
                     p \in EPaths,
                     es \in SeqsOfLen(EditSet, m),
                     rest \in PlansOf(k - 1, budget - m) } : m \in 0..budget }

Plans == UNION {PlansOf(k, MaxPlanEdits) : k \in 0..MaxFiles}

EditInit ==
    /\ ePlan \in Plans
    /\ eDisk0 \in [EPaths -> ETexts \cup {Missing}]
    /\ eDisk1 = eDisk0
    /\ eDisk = eDisk0
    /\ eIdx = 1
    /\ eOut = Running
    /\ eLog = <<>>
    /\ ePass = 1

EditIdle ==
    /\ ePlan = <<>>
    /\ eDisk0 = [p \in EPaths |-> Missing]
    /\ eDisk1 = eDisk0
    /\ eDisk = eDisk0
    /\ eIdx = 1
    /\ eOut = Running
    /\ eLog = <<>>
    /\ ePass = 1

\* The body of the for loop, for the file_change at eIdx.
ApplyNextFile ==
    /\ eOut = Running
    /\ eIdx <= Len(ePlan)
    /\ \E wm \in WriteModes :
          LET r == ApplyFileChange(ePlan[eIdx], eDisk, wm)
          IN /\ eDisk' = r.disk
             /\ eLog' = eLog \o r.wrote
             /\ eOut' = r.out
             /\ eIdx' = IF r.out = Running THEN eIdx + 1 ELSE eIdx
    /\ UNCHANGED <<ePlan, eDisk0, eDisk1, ePass>>
    /\ UNCHANGED cursorVars
    /\ UNCHANGED engineVars
    /\ UNCHANGED resolveVars
    /\ UNCHANGED watchVars

\* The loop is over: Ok(())
ApplyReturnOk ==
    /\ eOut = Running
    /\ eIdx > Len(ePlan)
    /\ eOut' = Ok("unit")
    /\ UNCHANGED <<ePlan, eDisk0, eDisk1, eDisk, eIdx, eLog, ePass>>
    /\ UNCHANGED cursorVars
    /\ UNCHANGED engineVars
    /\ UNCHANGED resolveVars
    /\ UNCHANGED watchVars

\* The caller applies the same plan once more to what the first call left.
ApplyAgain ==
    /\ eOut = Ok("unit")
    /\ ePass = 1
    /\ ePass' = 2
    /\ eDisk1' = eDisk
    /\ eIdx' = 1
    /\ eOut' = Running
    /\ eLog' = <<>>
    /\ UNCHANGED <<ePlan, eDisk0, eDisk>>
    /\ UNCHANGED cursorVars
    /\ UNCHANGED engineVars
    /\ UNCHANGED resolveVars
    /\ UNCHANGED watchVars


-----------------------------------------------------------------------------
(* The engine: RustAnalyzerish, the preamble of its queries, its queries,  *)
(* and the file watcher task that feeds its VFS and database               *)

MaxQueries == 2     \* queries made on one engine
MaxWrites == 1      \* writes made by other programs
MaxChan == 2        \* loader messages waiting in the watcher's channel

\* Two files of the project rooted at r1, one of the project rooted at r2,
\* one file with no Cargo.toml above it.
Files == {"r1/a", "r1/b", "r2/c", "x/d"}
NoRoot == "none"

\* ProjectManifest::discover_single and the parent of the manifest path
RootOf(p) ==
    CASE p \in {"r1/a", "r1/b"} -> "r1"
      [] p = "r2/c" -> "r2"
      [] OTHER -> NoRoot

Absent == <<"ABSENT">>      \* the VFS / the database has no such file
NoChange == <<"NOCHANGE">>  \* the collected change does not touch the file
NoWrite == <<"NOWRITE">>
OptNone == [opt |-> "None"]
Some(v) == [opt |-> "Some", v |-> v]
Blocked == [tag |-> "Blocked"]

Engine ==
    [root |-> root, vfs |-> vfs, host |-> host, loads |-> loads, watcher |-> watcher,
     staged |-> staged, loadCalls |-> loadCalls]

find_project_root(d, path) ==
    IF d[path] = Missing THEN Err("Canonicalize")
    ELSE IF RootOf(path) = NoRoot THEN Err("NoManifest")
    ELSE Ok(RootOf(path))

\* load_workspace_at: the files of the project that are on disk
LoadedFiles(d, r) ==
    [p \in Files |-> IF RootOf(p) = r /\ d[p] # Missing THEN d[p] ELSE Absent]

\* load_workspace: Err before anything is assigned, or a fresh host and VFS.
\* attach: the workspace is loaded the way the builder does it, which sets
\* up file watching on the loaded VFS and host.
load_workspace(e, d, r, loadOk, attach) ==
    IF ~loadOk THEN [e |-> [e EXCEPT !.loadCalls = e.loadCalls + 1],
                     out |-> Err("LoadFailed")]
    ELSE [e |-> [e EXCEPT !.vfs = LoadedFiles(d, r),
                          !.loadCalls = e.loadCalls + 1,
                          !.host = LoadedFiles(d, r),
                          !.loads = e.loads + 1,
                          !.staged = {},
                          !.watcher = IF attach THEN "running" ELSE "none"],
          out |-> Ok(LoadedFiles(d, r))]

\* An ensure_project_loaded that loads the other project over the first.
ensure_project_loaded_switching(e, d, path, loadOk, attach) ==
    LET pr == find_project_root(d, path)
    IN IF pr.tag # "Ok" THEN [e |-> e, out |-> pr]
       ELSE IF e.root = pr.val THEN [e |-> e, out |-> Ok(e.host)]
       ELSE LET lw == load_workspace(e, d, pr.val, TRUE, FALSE)
            IN [e |-> [lw.e EXCEPT !.root = pr.val], out |-> lw.out]

\* Ok(the Analysis snapshot: the files of the database at this moment)
ensure_project_loaded(e, d, path, loadOk, attach) ==
    LET pr == find_project_root(d, path)
    IN IF pr.tag # "Ok" THEN [e |-> e, out |-> pr]
       ELSE IF e.root # NoRoot
       THEN IF e.root = pr.val
            THEN [e |-> e, out |-> Ok(e.host)]
            ELSE [e |-> e, out |-> Err("WorkspaceAlreadyLoaded")]
       ELSE LET lw == load_workspace(e, d, pr.val, loadOk, attach)
            IN IF lw.out.tag # "Ok" THEN lw
               ELSE [e |-> [lw.e EXCEPT !.root = pr.val], out |-> lw.out]

\* host.apply_change while the query holds its Analysis snapshot: the call
\* waits for the snapshot to go away ("blocked"), or the change is applied
\* and the snapshot, which predates the file, fails to give its line index
\* with an error or with a panic.
ManualOutcomes == {"blocked", "applied_err", "applied_panic"}

load_file(e, d, path, manual) ==
    IF d[path] = Missing THEN [e |-> e, out |-> Err("FileNotFound")]
    ELSE IF e.vfs[path] # Absent THEN [e |-> e, out |-> Ok(path)]
    ELSE IF manual = "blocked"
    THEN [e |-> [e EXCEPT !.vfs[path] = d[path], !.staged = @ \cup {path}],
          out |-> Blocked]
    ELSE [e |-> [e EXCEPT !.vfs[path] = d[path], !.staged = @ \cup {path},
                          !.host[path] = d[path]],
          out |-> Ok(path)]

\* What every query starts with: ensure_project_loaded, load_file,
\* file_line_index on the snapshot, validate_and_convert_cursor.
\* vfs0 is the VFS that load_file finds.
Preamble(e, d, path, cursor, loadOk, attach, manual) ==
    LET en == ensure_project_loaded(e, d, path, loadOk, attach)
    IN IF en.out.tag # "Ok"
       THEN [e |-> en.e, out |-> en.out, snapTaken |-> FALSE, snap |-> e.host,
             vfs0 |-> en.e.vfs]
       ELSE LET snap == en.out.val
                lf == load_file(en.e, d, path, manual)
            IN [e |-> lf.e,
                snapTaken |-> TRUE,
                snap |-> snap,
                vfs0 |-> en.e.vfs,
                out |-> IF lf.out.tag # "Ok" THEN lf.out
                        ELSE IF snap[path] = Absent
                        THEN (IF manual = "applied_panic" THEN Panic
                              ELSE Err("LineIndex"))
                        ELSE validate_and_convert_cursor(cursor, snap[path])]

\* The choices that the preamble does not come to make are fixed.
NeedsManualLoad(path) ==
    /\ root # NoRoot /\ root = RootOf(path)
    /\ disk[path] # Missing /\ vfs[path] = Absent

PreambleChoices(path, loadOk, attach, manual) ==
    /\ (root # NoRoot \/ find_project_root(disk, path).tag # "Ok") => loadOk
    /\ (root # NoRoot \/ find_project_root(disk, path).tag # "Ok" \/ ~loadOk) => ~attach
    /\ ~NeedsManualLoad(path) => manual = "applied_err"

\* The choices a query on path can come to make in its preamble
PreambleChoiceSet(path) ==
    {c \in [loadOk : BOOLEAN, attach : BOOLEAN, manual : ManualOutcomes] :
        PreambleChoices(path, c.loadOk, c.attach, c.manual)}

\* The database is asked only when the preamble gave an offset
DbChoices(pre, outcomes) == IF pre.out.tag = "Ok" THEN outcomes ELSE {"-"}

\* A valid cursor, one with line 0, one below the last line of any file,
\* and one that names the symbol standing one column to its left.
ECursors ==
    { [line |-> 1, column |-> 1, symbol |-> OptNone],
      [line |-> 0, column |-> 1, symbol |-> OptNone],
      [line |-> 3, column |-> 1, symbol |-> OptNone],
      [line |-> 1, column |-> 2, symbol |-> Some(<<"a">>)] }

NoQuery ==
    [op |-> "none", path |-> "r1/a",
     cursor |-> [line |-> 1, column |-> 1, symbol |-> OptNone],
     offset |-> NoResult,
     db |-> "-", change |-> <<>>, plan |-> <<>>, log |-> <<>>,
     result |-> NoResult, snapTaken |-> FALSE,
     snap |-> [p \in Files |-> Absent],
     vfs0 |-> [p \in Files |-> Absent],
     range |-> <<OptNone, OptNone>>,
     engine |-> [root |-> NoRoot, vfs |-> [p \in Files |-> Absent],
                 host |-> [p \in Files |-> Absent]]]

\* RustAnalyzerish::new, on a file system where r1/b may not exist yet
EngineInit ==
    /\ root = NoRoot
    /\ vfs = [p \in Files |-> Absent]
    /\ host = [p \in Files |-> Absent]
    /\ disk \in { [p \in Files |-> CASE p = "r1/a" -> <<"a", NL, "a">>
                                     [] p = "r1/b" -> b
                                     [] OTHER -> <<"a">>] : b \in {Missing, <<"a">>} }
    /\ loads = 0
    /\ loadCalls = 0
    /\ watcher = "none"
    /\ chan = <<>>
    /\ wpc = "idle"
    /\ wchange = [p \in Files |-> NoChange]
    /\ qn = 0
    /\ writes = 0
    /\ hung = FALSE
    /\ last = NoQuery
    /\ wrote = [p \in Files |-> NoWrite]
    /\ wroteAt = 0
    /\ staged = {}

EngineIdle ==
    /\ root = NoRoot
    /\ vfs = [p \in Files |-> Absent]
    /\ host = [p \in Files |-> Absent]
    /\ disk = [p \in Files |-> Missing]
    /\ loads = 0
    /\ loadCalls = 0
    /\ watcher = "none"
    /\ chan = <<>>
    /\ wpc = "idle"
    /\ wchange = [p \in Files |-> NoChange]
    /\ qn = 0
    /\ writes = 0
    /\ hung = FALSE
    /\ last = NoQuery
    /\ wrote = [p \in Files |-> NoWrite]
    /\ wroteAt = 0
    /\ staged = {}

\* The engine after the preamble pre, and the record of the query.
EngineBecomes(pre) ==
    /\ root' = pre.e.root
    /\ vfs' = pre.e.vfs
    /\ host' = pre.e.host
    /\ loads' = pre.e.loads
    /\ loadCalls' = pre.e.loadCalls
    /\ watcher' = pre.e.watcher
    /\ staged' = pre.e.staged
    /\ hung' = (pre.out = Blocked)
    /\ qn' = qn + 1

QueryRecord(op, path, cursor, pre, db, change, plan, log, result) ==
    [op |-> op, path |-> path, cursor |-> cursor, offset |-> pre.out,
     db |-> db, change |-> change, plan |-> plan, log |-> log,
     result |-> result, snapTaken |-> pre.snapTaken, snap |-> pre.snap,
     vfs0 |-> pre.vfs0,
     range |-> <<OptNone, OptNone>>,
     engine |-> [root |-> pre.e.root, vfs |-> pre.e.vfs, host |-> pre.e.host]]

\* What analysis.goto_definition can do at a position
DefinitionOutcomes == {"panic", "none", "targets", "no_targets", "cancelled"}

\* A goto_definition that lets the panic through.
NoCatchUnwind(db) == db

\* std::panic::catch_unwind around analysis.goto_definition
CatchUnwind(db) == IF db = "panic" THEN "caught" ELSE db

get_definition(pre, db) ==
    IF pre.out.tag # "Ok" THEN pre.out
    ELSE LET r == CatchUnwind(db)
         IN CASE r = "caught" -> Ok(OptNone)
              [] r = "none" -> Ok(OptNone)
              [] r = "targets" -> Ok(Some(<<"nav">>))
              [] r = "no_targets" -> Ok(Some(<<>>))
              [] r = "cancelled" -> Err("AnalysisFailed")
              [] OTHER -> Panic

GetDefinition ==
    /\ ~hung
    /\ qn < MaxQueries
    /\ \E path \in Files, cursor \in ECursors :
       \E c \in PreambleChoiceSet(path) :
       \E pre \in {Preamble(Engine, disk, path, cursor, c.loadOk, c.attach, c.manual)} :
       \E db \in DbChoices(pre, DefinitionOutcomes) :
                /\ EngineBecomes(pre)
                /\ last' = QueryRecord("get_definition", path, cursor, pre, db,
                                       <<>>, <<>>, <<>>, get_definition(pre, db))
    /\ UNCHANGED <<disk, chan, wpc, wchange, writes, wrote, wroteAt>>
    /\ UNCHANGED cursorVars
    /\ UNCHANGED editVars
    /\ UNCHANGED resolveVars
    /\ UNCHANGED watchVars

\* What analysis.rename can do at a position: Err(Cancelled), the two
\* kinds of Err(RenameError), or a SourceChange.
RenameOutcomes == {"cancelled", "not_possible", "rejected", "ok"}

MaxChangeFiles == 2     \* most files in one SourceChange

\* The text edit the database may make in a file of its snapshot: the
\* last byte of the file becomes "b".
IndelChoices(text) ==
    IF text = <<>> THEN {}
    ELSE { <<[s |-> Len(text) - 1, e |-> Len(text), ins |-> <<"b">>]>> }

\* source_change.source_file_edits, in the order its iteration yields them
RECURSIVE ChangesOfLen(_, _)
ChangesOfLen(snap, n) ==
    IF n = 0 THEN {<<>>}
    ELSE { Append(c, [file |-> f, indels |-> ix]) :
             c \in ChangesOfLen(snap, n - 1),
             f \in {p \in Files : snap[p] # Absent},
             ix \in UNION {IndelChoices(snap[p]) : p \in Files} }

SourceChanges(snap) ==
    { c \in UNION {ChangesOfLen(snap, n) : n \in 1..MaxChangeFiles} :
        /\ \A i, j \in 1..Len(c) : i # j => c[i].file # c[j].file
        /\ \A i \in 1..Len(c) : c[i].indels \in IndelChoices(snap[c[i].file]) }

\* LineIndex::line_col: the last line that starts at or before the offset
LineCol(text, off) ==
    LET ls == LineStarts(text)
        l == CHOOSE i \in 1..Len(ls) :
                /\ ls[i] <= off
                /\ \A j \in 1..Len(ls) : ls[j] <= off => j <= i
    IN [line |-> l - 1, col |-> off - ls[l]]

\* The conversion of one file's text edit to 1-based TextEdits
ConvertIndels(text, indels) ==
    [i \in 1..Len(indels) |->
        TextEdit(LineCol(text, indels[i].s).line + 1,
                 LineCol(text, indels[i].s).col + 1,
                 LineCol(text, indels[i].e).line + 1,
                 LineCol(text, indels[i].e).col + 1,
                 indels[i].ins)]

ConvertChange(snap, change) ==
    [i \in 1..Len(change) |->
        [file_path |-> change[i].file,
         edits |-> ConvertIndels(snap[change[i].file], change[i].indels)]]

\* The arm for Err(rename_error) of the match on the rename result
RenameVerdict(db) == Ok(OptNone)

get_rename_info(pre, snap, db, change) ==
    IF pre.out.tag # "Ok" THEN pre.out
    ELSE CASE db = "cancelled" -> Err("AnalysisFailed")
           [] db \in {"not_possible", "rejected"} -> RenameVerdict(db)
           [] OTHER ->
                IF \E i \in 1..Len(change) : pre.e.vfs[change[i].file] = Absent
                THEN Err("FileIdNotInVfs")
                ELSE Ok(Some(ConvertChange(snap, change)))

\* apply_rename_edits as one call: the loop over the plan's file_changes
RECURSIVE ApplyPlanFrom(_, _, _, _, _)
ApplyPlanFrom(plan, i, d, wm, log) ==
    IF i > Len(plan) THEN [disk |-> d, out |-> Ok("unit"), log |-> log]
    ELSE LET r == ApplyFileChange(plan[i], d, wm)
         IN IF r.out # Running
            THEN [disk |-> r.disk, out |-> r.out, log |-> log \o r.wrote]
            ELSE ApplyPlanFrom(plan, i + 1, r.disk, wm, log \o r.wrote)

apply_rename_edits(plan, d, wm) == ApplyPlanFrom(plan, 1, d, wm, <<>>)

\* A rename_symbol that runs the applier on whatever it got.
ApplyAlways(info, d, wm) ==
    LET plan == IF info.tag = "Ok" /\ info.val.opt = "Some" THEN info.val.v
                ELSE <<[file_path |-> "r1/a", edits |-> <<>>]>>
        a == apply_rename_edits(plan, d, wm)
    IN [disk |-> a.disk, log |-> a.log,
        result |-> IF a.out = Ok("unit") THEN info ELSE a.out]

\* rename_symbol after get_rename_info: apply if Some, return the plan
ApplyIfSome(info, d, wm) ==
    IF info.tag = "Ok" /\ info.val.opt = "Some"
    THEN LET a == apply_rename_edits(info.val.v, d, wm)
         IN [disk |-> a.disk, log |-> a.log,
             result |-> IF a.out = Ok("unit") THEN info ELSE a.out]
    ELSE [disk |-> d, log |-> <<>>, result |-> info]

PlanOf(info) ==
    IF info.tag = "Ok" /\ info.val.opt = "Some" THEN info.val.v ELSE <<>>

\* The loader messages for the writes of log, when the files are watched
Notifications(w, log) ==
    IF w # "running" THEN <<>>
    ELSE [i \in 1..Len(log) |->
            [kind |-> "Changed", path |-> log[i].path, contents |-> log[i].content]]

RECURSIVE WroteAfter(_, _, _)
WroteAfter(w, log, i) ==
    IF i > Len(log) THEN w
    ELSE WroteAfter([w EXCEPT ![log[i].path] = log[i].content], log, i + 1)

RenameChoices(pre, db, change) ==
    /\ (pre.out.tag = "Ok") <=> (db # "-")
    /\ IF db = "ok" THEN change \in SourceChanges(pre.snap) ELSE change = <<>>

GetRenameInfo ==
    /\ ~hung
    /\ qn < MaxQueries
    /\ \E path \in Files, cursor \in ECursors :
       \E c \in PreambleChoiceSet(path) :
       \E pre \in {Preamble(Engine, disk, path, cursor, c.loadOk, c.attach, c.manual)} :
       \E db \in DbChoices(pre, RenameOutcomes) :
                \E change \in IF db = "ok" THEN SourceChanges(pre.snap) ELSE {<<>>} :
                   /\ RenameChoices(pre, db, change)
                   /\ EngineBecomes(pre)
                   /\ \E info \in {get_rename_info(pre, pre.snap, db, change)} :
                         last' = QueryRecord("get_rename_info", path, cursor, pre, db,
                                             change, PlanOf(info), <<>>, info)
    /\ UNCHANGED <<disk, chan, wpc, wchange, writes, wrote, wroteAt>>
    /\ UNCHANGED cursorVars
    /\ UNCHANGED editVars
    /\ UNCHANGED resolveVars
    /\ UNCHANGED watchVars

RenameSymbol ==
    /\ ~hung
    /\ qn < MaxQueries
    /\ \E path \in Files, cursor \in ECursors :
       \E c \in PreambleChoiceSet(path) :
       \E pre \in {Preamble(Engine, disk, path, cursor, c.loadOk, c.attach, c.manual)} :
       \E db \in DbChoices(pre, RenameOutcomes) :
       \E wm \in IF db = "ok" THEN {"ok", "open_failed"} ELSE {"ok"} :
                \E change \in IF db = "ok" THEN SourceChanges(pre.snap) ELSE {<<>>} :
                   /\ RenameChoices(pre, db, change)
                   /\ (db # "ok") => wm = "ok"
                   /\ EngineBecomes(pre)
                   /\ \E info \in {get_rename_info(pre, pre.snap, db, change)} :
                      \E ap \in {ApplyIfSome(info, disk, wm)} :
                         /\ disk' = ap.disk
                         /\ chan' = chan \o Notifications(pre.e.watcher, ap.log)
                         /\ Len(chan') <= MaxChan
                         /\ wrote' = WroteAfter(wrote, ap.log, 1)
                         /\ wroteAt' = IF ap.log = <<>> THEN wroteAt ELSE qn + 1
                         /\ last' = QueryRecord("rename_symbol", path, cursor, pre, db,
                                                change, PlanOf(info), ap.log, ap.result)
    /\ UNCHANGED <<wpc, wchange, writes>>
    /\ UNCHANGED cursorVars
    /\ UNCHANGED editVars
    /\ UNCHANGED resolveVars
    /\ UNCHANGED watchVars

\* str::lines: the pieces between line breaks; a line break at the very
\* end does not start a further line
RECURSIVE LinesFrom(_, _, _)
LinesFrom(text, i, cur) ==
    IF i > Len(text) THEN (IF cur = <<>> THEN <<>> ELSE <<cur>>)
    ELSE IF text[i] = NL THEN <<cur>> \o LinesFrom(text, i + 1, <<>>)
    ELSE LinesFrom(text, i + 1, Append(cur, text[i]))

Lines(text) == LinesFrom(text, 1, <<>>)

\* get_line_content, line_number 0-based
get_line_content(file_text, line_number) ==
    IF line_number < Len(Lines(file_text)) THEN Lines(file_text)[line_number + 1]
    ELSE <<>>

\* What analysis.find_all_refs can do at a position: Err(Cancelled), None,
\* or a list of search results
RefsOutcomes == {"cancelled", "none", "some"}

\* The offsets of a text where the searched name (the byte "a") stands
RECURSIVE OccurrencesFrom(_, _)
OccurrencesFrom(text, i) ==
    IF i > Len(text) THEN <<>>
    ELSE (IF text[i] = "a" THEN <<i - 1>> ELSE <<>>) \o OccurrencesFrom(text, i + 1)

Occurrences(text) == IF text = Absent THEN <<>> ELSE OccurrencesFrom(text, 1)

Reversed(q) == [i \in 1..Len(q) |-> q[Len(q) + 1 - i]]

\* String::cmp on the paths of the model
PathRank(p) ==
    CASE p = "r1/a" -> 1 [] p = "r1/b" -> 2 [] p = "r2/c" -> 3 [] OTHER -> 4

\* search_result.references: files of the snapshot that hold the name, in
\* an order the iteration over the map may yield (one file, or two with the
\* later path first), each with its ranges in ascending or descending order
RefGroups(snap) ==
    LET with == {p \in Files : Occurrences(snap[p]) # <<>>}
        group(p, rev) == [file |-> p,
                          ranges |-> IF rev THEN Reversed(Occurrences(snap[p]))
                                     ELSE Occurrences(snap[p])]
    IN {<<>>}
       \cup { <<group(p, rev)>> : p \in with, rev \in BOOLEAN }
       \cup { <<group(pq[1], TRUE), group(pq[2], TRUE)>> :
                pq \in {x \in with \X with : PathRank(x[1]) > PathRank(x[2])} }

\* The lists of search results the database may give for a position of path
SearchResults(snap, path) ==
    {<<>>} \cup
    { <<[declaration |-> d, references |-> g]>> :
        d \in {OptNone} \cup
              { Some([file |-> path, s |-> Occurrences(snap[path])[n]]) :
                  n \in {Len(Occurrences(snap[path]))} \ {0} },
        g \in RefGroups(snap) }

ReferenceInfo(path, text, s, isDef) ==
    [file_path |-> path,
     line |-> LineCol(text, s).line + 1,
     column |-> LineCol(text, s).col + 1,
     end_line |-> LineCol(text, s + 1).line + 1,
     end_column |-> LineCol(text, s + 1).col + 1,
     content |-> get_line_content(text, LineCol(text, s).line),
     is_definition |-> isDef]

\* The declaration of a search result, when its file has a line index in
\* the snapshot and exists in the VFS
DeclarationRecord(v, snap, sr) ==
    IF sr.declaration.opt = "Some"
       /\ snap[sr.declaration.v.file] # Absent
       /\ v[sr.declaration.v.file] # Absent
    THEN <<ReferenceInfo(sr.declaration.v.file, snap[sr.declaration.v.file],
                         sr.declaration.v.s, TRUE)>>
    ELSE <<>>

RECURSIVE GroupRecords(_, _, _, _)
GroupRecords(v, snap, groups, i) ==
    IF i > Len(groups) THEN <<>>
    ELSE (IF snap[groups[i].file] # Absent /\ v[groups[i].file] # Absent
          THEN [n \in 1..Len(groups[i].ranges) |->
                   ReferenceInfo(groups[i].file, snap[groups[i].file],
                                 groups[i].ranges[n], FALSE)]
          ELSE <<>>) \o GroupRecords(v, snap, groups, i + 1)

\* The loop over the search results: the declaration, then the use sites
RECURSIVE CollectReferences(_, _, _, _)
CollectReferences(v, snap, results, i) ==
    IF i > Len(results) THEN <<>>
    ELSE DeclarationRecord(v, snap, results[i])
         \o GroupRecords(v, snap, results[i].references, 1)
         \o CollectReferences(v, snap, results, i + 1)

\* The comparator given to sort_by: a before or equal to b
ReferenceLe(a, b) ==
    \/ PathRank(a.file_path) < PathRank(b.file_path)
    \/ /\ a.file_path = b.file_path
       /\ \/ a.line < b.line
          \/ a.line = b.line /\ a.column <= b.column

\* A find_references that returns the records as they were collected.
NoSort(refs) == refs

\* Vec::sort_by: a stable sort, here by inserting each record after the
\* records that are before or equal to it
RECURSIVE SortReferences(_)
SortReferences(refs) ==
    IF refs = <<>> THEN <<>>
    ELSE LET done == SortReferences(SubSeq(refs, 1, Len(refs) - 1))
             x == refs[Len(refs)]
             k == Cardinality({i \in 1..Len(done) : ReferenceLe(done[i], x)})
         IN SubSeq(done, 1, k) \o <<x>> \o SubSeq(done, k + 1, Len(done))

\* A find_references that returns the list even when it is empty.
find_references_any_list(pre, db, results) ==
    IF pre.out.tag # "Ok" THEN pre.out
    ELSE CASE db = "none" -> Ok(OptNone)
           [] db = "cancelled" -> Err("FindReferencesFailed")
           [] OTHER -> Ok(Some(SortReferences(
                          CollectReferences(pre.e.vfs, pre.snap, results, 1))))

find_references(pre, db, results) ==
    IF pre.out.tag # "Ok" THEN pre.out
    ELSE CASE db = "none" -> Ok(OptNone)
           [] db = "cancelled" -> Err("FindReferencesFailed")
           [] OTHER ->
                LET references == CollectReferences(pre.e.vfs, pre.snap, results, 1)
                IN IF references = <<>> THEN Err("NoReferences")
                   ELSE Ok(Some(SortReferences(references)))

FindReferences ==
    /\ ~hung
    /\ qn < MaxQueries
    /\ \E path \in Files, cursor \in ECursors :
       \E c \in PreambleChoiceSet(path) :
       \E pre \in {Preamble(Engine, disk, path, cursor, c.loadOk, c.attach, c.manual)} :
       \E db \in DbChoices(pre, RefsOutcomes) :
                \E results \in IF db = "some" THEN SearchResults(pre.snap, path)
                                ELSE {<<>>} :
                   /\ EngineBecomes(pre)
                   /\ last' = QueryRecord("find_references", path, cursor, pre, db,
                                          results, <<>>, <<>>,
                                          find_references(pre, db, results))
    /\ UNCHANGED <<disk, chan, wpc, wchange, writes, wrote, wroteAt>>
    /\ UNCHANGED cursorVars
    /\ UNCHANGED editVars
    /\ UNCHANGED resolveVars
    /\ UNCHANGED watchVars

\* Another program writes a file of the project: the notify thread of the
\* watcher, when there is one, reports it with the contents it read.
WriteTexts == {<<"b">>}

ExternalWrite ==
    /\ writes < MaxWrites
    /\ Len(chan) < MaxChan
    /\ \E path \in {"r1/a", "r1/b"}, text \in WriteTexts :
          /\ disk[path] # text
          /\ disk' = [disk EXCEPT ![path] = text]
          /\ chan' = chan \o Notifications(
                        IF RootOf(path) = root THEN watcher ELSE "none",
                        <<[path |-> path, content |-> text]>>)
          /\ wrote' = [wrote EXCEPT ![path] = NoWrite]
    /\ writes' = writes + 1
    /\ UNCHANGED <<root, vfs, host, loads, loadCalls, watcher, wpc, wchange, qn, hung, last, wroteAt,
                 staged>>
    /\ UNCHANGED cursorVars
    /\ UNCHANGED editVars
    /\ UNCHANGED resolveVars
    /\ UNCHANGED watchVars

\* One tick of file_watcher_task_loop up to the end of the while loop over
\* try_recv: a Changed file that the VFS knows gets its new contents in the
\* VFS and in the collected change.
\* set_file_contents stages a change in the VFS when the contents differ
\* from those the VFS has (st: the files with a staged change).
RECURSIVE DrainFrom(_, _, _, _, _)
DrainFrom(msgs, i, v, ch, st) ==
    IF i > Len(msgs) THEN [vfs |-> v, change |-> ch, staged |-> st]
    ELSE IF msgs[i].kind = "Changed" /\ v[msgs[i].path] # Absent
    THEN DrainFrom(msgs, i + 1,
                   [v EXCEPT ![msgs[i].path] = msgs[i].contents],
                   [ch EXCEPT ![msgs[i].path] = msgs[i].contents],
                   IF v[msgs[i].path] # msgs[i].contents
                   THEN st \cup {msgs[i].path} ELSE st)
    ELSE DrainFrom(msgs, i + 1, v, ch, st)

WatcherDrain ==
    /\ watcher = "running"
    /\ wpc = "idle"
    /\ chan # <<>>
    /\ LET r == DrainFrom(chan, 1, vfs, [p \in Files |-> NoChange], staged)
       IN /\ vfs' = r.vfs
          /\ wchange' = r.change
          /\ staged' = r.staged
    /\ chan' = <<>>
    /\ wpc' = "apply"
    /\ UNCHANGED <<root, host, disk, loads, loadCalls, watcher, qn, writes, hung, last, wrote, wroteAt>>
    /\ UNCHANGED cursorVars
    /\ UNCHANGED editVars
    /\ UNCHANGED resolveVars
    /\ UNCHANGED watchVars

\* The end of the tick: host.apply_change(change) under the host's lock.
\* The change is the one the loop collected; the VFS is not asked for its
\* staged changes.
WatcherApply ==
    /\ wpc = "apply"
    /\ ~hung
    /\ host' = [p \in Files |-> IF wchange[p] # NoChange THEN wchange[p] ELSE host[p]]
    /\ wchange' = [p \in Files |-> NoChange]
    /\ wpc' = "idle"
    /\ UNCHANGED <<root, vfs, disk, loads, loadCalls, watcher, chan, qn, writes, hung, last, wrote, wroteAt,
                 staged>>
    /\ UNCHANGED cursorVars
    /\ UNCHANGED editVars
    /\ UNCHANGED resolveVars
    /\ UNCHANGED watchVars

-----------------------------------------------------------------------------
(* The cursor resolver: CursorCoordinates::resolve_coordinates *)

TOLERANCE == 5

MaxU32 == 15        \* u32::MAX of the model: line and column are 4 bits wide
MaxRLines == 7      \* lines of the tallest file of SpecResolve
MaxRCols == 7       \* bytes of the widest line of SpecResolve

\* line[start..].find(symbol): the first position at or after start where
\* symbol stands (0-based), None if there is none
FindFrom(line, symbol, start) ==
    LET at == {p \in start..(Len(line) - Len(symbol)) :
                 SubSeq(line, p + 1, p + Len(symbol)) = symbol}
    IN IF at = {} THEN None
       ELSE CHOOSE p \in at : \A q \in at : p <= q

\* The while loop of find_symbol_in_line. Slicing line[start..] with start
\* past the end of the line panics (only an empty symbol gets there).
RECURSIVE MatchesFrom(_, _, _)
MatchesFrom(line, symbol, start) ==
    IF start > Len(line) THEN [panic |-> TRUE, m |-> <<>>]
    ELSE LET pos == FindFrom(line, symbol, start)
         IN IF pos = None THEN [panic |-> FALSE, m |-> <<>>]
            ELSE LET rest == MatchesFrom(line, symbol, pos + 1)
                 IN [panic |-> rest.panic, m |-> <<pos>> \o rest.m]

AbsDiff(a, b) == IF a >= b THEN a - b ELSE b - a

\* The for loop over the matches: the first of the closest matches
RECURSIVE ClosestFrom(_, _, _, _)
ClosestFrom(matches, i, target_col, closest_pos) ==
    IF i > Len(matches) THEN closest_pos
    ELSE IF AbsDiff(matches[i] + 1, target_col) < AbsDiff(closest_pos + 1, target_col)
    THEN ClosestFrom(matches, i + 1, target_col, matches[i])
    ELSE ClosestFrom(matches, i + 1, target_col, closest_pos)

\* A find_symbol_in_line that takes the first occurrence on every line.
find_symbol_in_line_first(cursor, line, symbol, line_number) ==
    LET ms == MatchesFrom(line, symbol, 0)
    IN IF ms.panic THEN Panic
       ELSE IF ms.m = <<>> THEN Ok(None)
       ELSE Ok(ms.m[1] + 1)

\* A find_symbol_in_line that falls back to the last occurrence.
find_symbol_in_line_last(cursor, line, symbol, line_number) ==
    LET ms == MatchesFrom(line, symbol, 0)
    IN IF ms.panic THEN Panic
       ELSE IF ms.m = <<>> THEN Ok(None)
       ELSE LET closest_pos == ClosestFrom(ms.m, 1, cursor.column, ms.m[1])
            IN IF line_number = cursor.line
                  /\ AbsDiff(closest_pos + 1, cursor.column) <= TOLERANCE
               THEN Ok(closest_pos + 1)
               ELSE Ok(ms.m[Len(ms.m)] + 1)

\* Panic, Ok(None) or Ok(the 1-based column)
find_symbol_in_line(cursor, line, symbol, line_number) ==
    LET ms == MatchesFrom(line, symbol, 0)
    IN IF ms.panic THEN Panic
       ELSE IF ms.m = <<>> THEN Ok(None)
       ELSE LET closest_pos == ClosestFrom(ms.m, 1, cursor.column, ms.m[1])
            IN IF line_number = cursor.line
                  /\ AbsDiff(closest_pos + 1, cursor.column) <= TOLERANCE
               THEN Ok(closest_pos + 1)
               ELSE Ok(ms.m[1] + 1)

\* The loop that builds line_range. self.line + offset is a u32 addition:
\* with overflow checks it panics past u32::MAX, without them it wraps.
RECURSIVE LineRangeFrom(_, _, _, _)
LineRangeFrom(line, nlines, offset, checks) ==
    IF offset > TOLERANCE THEN [panic |-> FALSE, r |-> <<>>]
    ELSE IF line + offset > MaxU32 /\ checks THEN [panic |-> TRUE, r |-> <<>>]
    ELSE LET below == (line + offset) % (MaxU32 + 1)
             above == line - offset
             rest == LineRangeFrom(line, nlines, offset + 1, checks)
         IN [panic |-> rest.panic,
             r |-> (IF below <= nlines THEN <<below>> ELSE <<>>)
                   \o (IF offset # 0 /\ line > offset /\ above > 0
                       THEN <<above>> ELSE <<>>)
                   \o rest.r]

line_range(line, nlines, checks) == LineRangeFrom(line, nlines, 0, checks)

\* The search over line_range. actual_line_number - 1 is a usize
\* subtraction: for line number 0 it panics with overflow checks, and
\* without them it wraps to an index that no file has.
RECURSIVE SearchFrom(_, _, _, _, _, _)
SearchFrom(cursor, lines, symbol, range, i, checks) ==
    IF i > Len(range) THEN Ok(OptNone)
    ELSE IF range[i] = 0
    THEN (IF checks THEN Panic
          ELSE SearchFrom(cursor, lines, symbol, range, i + 1, checks))
    ELSE IF range[i] > Len(lines)
    THEN SearchFrom(cursor, lines, symbol, range, i + 1, checks)
    ELSE LET c == find_symbol_in_line(cursor, lines[range[i]], symbol, range[i])
         IN IF c = Panic THEN Panic
            ELSE IF c.val = None
            THEN SearchFrom(cursor, lines, symbol, range, i + 1, checks)
            ELSE Ok(Some([file_path |-> cursor.file_path,
                          line |-> range[i],
                          column |-> c.val,
                          symbol |-> cursor.symbol]))

find_symbol_in_tolerance_box(cursor, file_content, symbol, checks) ==
    LET lines == Lines(file_content)
        lr == line_range(cursor.line, Len(lines), checks)
    IN IF lr.panic THEN Panic
       ELSE SearchFrom(cursor, lines, symbol, lr.r, 1, checks)

\* Panic, or Ok(the coordinates returned)
resolve_coordinates(cursor, file_content, checks) ==
    IF cursor.symbol.opt = "Some"
    THEN LET f == find_symbol_in_tolerance_box(cursor, file_content,
                                               cursor.symbol.v, checks)
         IN IF f = Panic THEN Panic
            ELSE IF f.val.opt = "Some" THEN Ok(f.val.v)
            ELSE Ok(cursor)
    ELSE Ok(cursor)

\* The symbols of the model: none, the empty string, "a", "aa"
RSymbols == {OptNone, Some(<<>>), Some(<<"a">>), Some(<<"a", "a">>)}

\* Lines from 0 to below the tallest file, and the two largest of a u32
RLineNumbers == 0..(MaxRLines + 1) \cup {MaxU32 - 1, MaxU32}

RCursors ==
    [file_path : {"f"}, line : RLineNumbers, column : 0..(MaxRCols + 1),
     symbol : RSymbols]

\* The sequences of n pieces, each a or b, with at most two a
PiecesOf(n, a, b) ==
    { [i \in 1..n |-> IF i \in S THEN a ELSE b] :
        S \in {T \in SUBSET (1..n) : Cardinality(T) <= 2} }

RECURSIVE JoinLines(_)
JoinLines(ls) ==
    IF ls = <<>> THEN <<>>
    ELSE IF Len(ls) = 1 THEN ls[1]
    ELSE ls[1] \o <<NL>> \o JoinLines(Tail(ls))

\* Tall files of one-byte lines, wide files of one long line followed by
\* nothing, by a line break or by a second line, and all the short files
RTexts ==
    { JoinLines(ls) : ls \in PiecesOf(MaxRLines, <<"a">>, <<"b">>) }
    \cup { w \o t : w \in PiecesOf(MaxRCols, "a", "b"),
                    t \in {<<>>, <<NL>>, <<NL, "a">>} }
    \cup TextsUpTo(MaxLen)

ResolveInit ==
    /\ rText \in RTexts
    /\ rCursor \in RCursors
    /\ rChecks \in BOOLEAN
    /\ rResult = NoResult
    /\ rFound = FALSE

ResolveIdle ==
    /\ rText = <<>>
    /\ rCursor = [file_path |-> "f", line |-> 1, column |-> 1, symbol |-> OptNone]
    /\ rChecks = FALSE
    /\ rResult = NoResult
    /\ rFound = FALSE

ResolveCoordinates ==
    /\ rResult = NoResult
    /\ rResult' = resolve_coordinates(rCursor, rText, rChecks)
    /\ rFound' = /\ rCursor.symbol.opt = "Some"
                 /\ find_symbol_in_tolerance_box(rCursor, rText, rCursor.symbol.v,
                                                 rChecks) # Panic
                 /\ find_symbol_in_tolerance_box(rCursor, rText, rCursor.symbol.v,
                                                 rChecks).val.opt = "Some"
    /\ UNCHANGED <<rText, rCursor, rChecks>>
    /\ UNCHANGED cursorVars
    /\ UNCHANGED editVars
    /\ UNCHANGED engineVars
    /\ UNCHANGED watchVars

\* The caller asks again with the symbol it had left out, or without it.
ResolveAgain ==
    /\ rResult # NoResult
    /\ rCursor' \in {c \in RCursors : /\ c.line = rCursor.line
                                       /\ c.column = rCursor.column
                                       /\ c.symbol # rCursor.symbol}
    /\ rResult' = NoResult
    /\ rFound' = FALSE
    /\ UNCHANGED <<rText, rChecks>>
    /\ UNCHANGED cursorVars
    /\ UNCHANGED editVars
    /\ UNCHANGED engineVars
    /\ UNCHANGED watchVars

-----------------------------------------------------------------------------
(* view_inlay_hints: the file with its inlay hints inserted, whole or the  *)
(* lines of a range                                                        *)

\* What view_inlay_hints starts with: ensure_project_loaded, load_file,
\* file_text on the snapshot. Ok(the text of the file in the snapshot)
HintsPreamble(e, d, path, loadOk, attach, manual) ==
    LET en == ensure_project_loaded(e, d, path, loadOk, attach)
    IN IF en.out.tag # "Ok"
       THEN [e |-> en.e, out |-> en.out, snapTaken |-> FALSE, snap |-> e.host,
             vfs0 |-> en.e.vfs]
       ELSE LET snap == en.out.val
                lf == load_file(en.e, d, path, manual)
            IN [e |-> lf.e,
                snapTaken |-> TRUE,
                snap |-> snap,
                vfs0 |-> en.e.vfs,
                out |-> IF lf.out.tag # "Ok" THEN lf.out
                        ELSE IF snap[path] = Absent
                        THEN (IF manual = "applied_panic" THEN Panic
                              ELSE Err("FileContent"))
                        ELSE Ok(snap[path])]

\* What analysis.inlay_hints can do: Err(Cancelled), or a list of hints
HintsOutcomes == {"cancelled", "hints"}

\* The hints the database may give for a text: none, or a type hint after
\* the first byte of the file
HintChoices(text) ==
    {<<>>} \cup (IF text = <<>> THEN {}
                 ELSE { <<[position |-> "After", start |-> 0, end |-> 1,
                           label |-> <<"b">>]>> })

\* The insertion of one hint: ": label" at the end of its range, or
\* "label: " at its start
HintIndel(hint) ==
    IF hint.position = "After"
    THEN [s |-> hint.end, e |-> hint.end, ins |-> <<":", " ">> \o hint.label]
    ELSE [s |-> hint.start, e |-> hint.start, ins |-> hint.label \o <<":", " ">>]

RECURSIVE HintIndels(_, _, _)
HintIndels(hints, i, acc) ==
    IF i > Len(hints) THEN acc
    ELSE HintIndels(hints, i + 1, IndelPushSorted(acc, HintIndel(hints[i])))

\* builder.finish() and text_edit.apply on a copy of the file content
AnnotatedText(text, hints) ==
    TextEditApply(text, coalesce_indels(HintIndels(hints, 1, <<>>)))

MinOf(a, b) == IF a <= b THEN a ELSE b

\* The slice of the rendered output when both start_line and end_line are
\* given.
SliceLines(result, start, end) ==
    LET lines == Lines(result)
        start_idx == MinOf(SatSub1(start), Len(lines))
        end_idx == MinOf(end, Len(lines))
    IN IF start_idx >= Len(lines) \/ end_idx <= start_idx
       THEN Err("RangeOutOfBounds")
       ELSE Ok(JoinLines(SubSeq(lines, start_idx + 1, end_idx)))

\* A view_inlay_hints that takes no range but one inside the file.
view_inlay_hints_strict(pre, db, hints, start_line, end_line) ==
    IF pre.out.tag # "Ok" THEN pre.out
    ELSE IF db = "cancelled" THEN Err("InlayHintsFailed")
    ELSE LET r == AnnotatedText(pre.out.val, hints)
         IN IF r.tag # "Ok" THEN r
            ELSE IF start_line.opt = "Some" /\ end_line.opt = "Some"
            THEN (IF \/ start_line.v < 1
                     \/ start_line.v > end_line.v
                     \/ end_line.v > Len(Lines(r.val))
                  THEN Err("RangeOutOfBounds")
                  ELSE Ok(JoinLines(SubSeq(Lines(r.val), start_line.v, end_line.v))))
            ELSE r

view_inlay_hints(pre, db, hints, start_line, end_line) ==
    IF pre.out.tag # "Ok" THEN pre.out
    ELSE IF db = "cancelled" THEN Err("InlayHintsFailed")
    ELSE LET r == AnnotatedText(pre.out.val, hints)
         IN IF r.tag # "Ok" THEN r
            ELSE IF start_line.opt = "Some" /\ end_line.opt = "Some"
            THEN SliceLines(r.val, start_line.v, end_line.v)
            ELSE r

\* No range, half a range, ranges inside a file of one or two lines, and
\* ranges that start at 0, end below the file, start below it or are empty
HintRanges ==
    { <<OptNone, OptNone>>, <<Some(1), OptNone>>,
      <<Some(1), Some(1)>>, <<Some(1), Some(2)>>, <<Some(2), Some(2)>>,
      <<Some(0), Some(1)>>, <<Some(1), Some(3)>>, <<Some(3), Some(3)>>,
      <<Some(2), Some(1)>> }

ViewInlayHints ==
    /\ ~hung
    /\ qn < MaxQueries
    /\ \E path \in Files :
       \E c \in PreambleChoiceSet(path) :
       \E pre \in {HintsPreamble(Engine, disk, path, c.loadOk, c.attach, c.manual)} :
       \E db \in DbChoices(pre, HintsOutcomes) :
       \E hints \in IF db = "hints" THEN HintChoices(pre.out.val) ELSE {<<>>} :
       \E range \in IF db = "hints" THEN HintRanges ELSE {<<OptNone, OptNone>>} :
                /\ EngineBecomes(pre)
                /\ last' = [QueryRecord("view_inlay_hints", path, NoQuery.cursor,
                                        pre, db, hints, <<>>, <<>>,
                                        view_inlay_hints(pre, db, hints,
                                                         range[1], range[2]))
                            EXCEPT !.range = range]
    /\ UNCHANGED <<disk, chan, wpc, wchange, writes, wrote, wroteAt>>
    /\ UNCHANGED cursorVars
    /\ UNCHANGED editVars
    /\ UNCHANGED resolveVars
    /\ UNCHANGED watchVars

-----------------------------------------------------------------------------
(* The watcher task by itself: file_watcher_task_loop step by step, the    *)
(* notify thread that fills its channel, and the drop of the FileWatcher   *)

MaxSent == 3        \* messages the notify thread sends

\* Two files of the loaded workspace and one the Vfs has never seen
WPaths == {"p", "q", "n"}

\* File contents as bytes: "a", "b", and a byte that no UTF-8 text holds
BytesA == <<97>>
BytesB == <<98>>
BytesBad == <<255>>

\* An entry of the Vfs: no such path, a deleted file, or a file and its bytes
VfsAbsent == [st |-> "Absent", bytes |-> <<>>]
VfsDeleted == [st |-> "Deleted", bytes |-> <<>>]
VfsExists(bytes) == [st |-> "Exists", bytes |-> bytes]

\* What the database holds for a file: nothing, None, or a text
HostAbsent == [st |-> "Absent", text |-> <<>>]
HostNone == [st |-> "None", text |-> <<>>]
HostText(text) == [st |-> "Text", text |-> text]

CharOf(byte) == IF byte = 97 THEN "a" ELSE "b"

\* A decoding that never fails.
from_utf8_lossy(bytes) == Some([i \in 1..Len(bytes) |-> CharOf(bytes[i])])

\* String::from_utf8(bytes).ok(), for bytes that are ASCII or 0xFF
from_utf8(bytes) ==
    IF \A i \in 1..Len(bytes) : bytes[i] < 128
    THEN Some([i \in 1..Len(bytes) |-> CharOf(bytes[i])])
    ELSE OptNone

\* contents.and_then(|bytes| String::from_utf8(bytes).ok())
text_contents(contents) ==
    IF contents.opt = "None" THEN OptNone ELSE from_utf8(contents.v)

\* Vfs::file_id: Some for a path the Vfs holds a file for, None for an
\* unknown path and for a deleted file
vfs_file_id(v, path) == v[path].st = "Exists"

\* Vfs::set_file_contents: None deletes the file
set_file_contents(v, path, contents) ==
    [v EXCEPT ![path] = IF contents.opt = "None" THEN VfsDeleted
                        ELSE VfsExists(contents.v)]

\* AnalysisHost::apply_change: the files of the change in the order in
\* which change_file pushed them
RECURSIVE apply_change(_, _)
apply_change(h, change) ==
    IF change = <<>> THEN h
    ELSE apply_change([h EXCEPT ![Head(change).path] =
                          IF Head(change).text.opt = "None" THEN HostNone
                          ELSE HostText(Head(change).text.v)],
                      Tail(change))

\* What a task that holds the lock of the Vfs and the lock of the host
\* reads for one path, with what the two held when the tick began
NotSeen == [path |-> "-"]
Seen(path, v, h, v0, h0) ==
    [path |-> path, vfs |-> v, host |-> h, vfs0 |-> v0, host0 |-> h0]

WFile(path, contents) == [path |-> path, contents |-> contents]
WMessage(kind, files) == [kind |-> kind, files |-> files]
NoMessage == WMessage("none", <<>>)

\* The messages of the notify thread
WMessages ==
    { WMessage("Progress", <<>>),
      WMessage("Loaded", <<WFile("p", Some(BytesB))>>),
      WMessage("Changed", <<WFile("p", Some(BytesB))>>),
      WMessage("Changed", <<WFile("p", Some(BytesBad))>>),
      WMessage("Changed", <<WFile("p", OptNone)>>),
      WMessage("Changed", <<WFile("q", Some(BytesB))>>),
      WMessage("Changed", <<WFile("n", Some(BytesB))>>),
      WMessage("Changed", <<WFile("p", Some(BytesB)), WFile("p", Some(BytesA))>>),
      WMessage("Changed", <<WFile("p", Some(BytesBad)), WFile("q", Some(BytesB))>>) }

\* setup_file_watching on the Vfs and host of a loaded workspace, on a
\* runtime with worker threads (tokio::main) or without (tokio::test)
WatchInit ==
    /\ wVfs = [x \in WPaths |-> IF x = "n" THEN VfsAbsent ELSE VfsExists(BytesA)]
    /\ wHost = [x \in WPaths |-> IF x = "n" THEN HostAbsent ELSE HostText(<<"a">>)]
    /\ wChan = <<>>
    /\ wTask = "sleep"
    /\ wFiles = NoMessage
    /\ wHas = FALSE
    /\ wChange = <<>>
    /\ wDropped = FALSE
    /\ wMulti \in BOOLEAN
    /\ wSent = 0
    /\ wApplies = 0
    /\ wConsumed = <<>>
    /\ wVfs0 = wVfs
    /\ wHost0 = wHost
    /\ wTick = "none"
    /\ wSeen = NotSeen

WatchIdle ==
    /\ wVfs = [x \in WPaths |-> VfsAbsent]
    /\ wHost = [x \in WPaths |-> HostAbsent]
    /\ wChan = <<>>
    /\ wTask = "aborted"
    /\ wFiles = NoMessage
    /\ wHas = FALSE
    /\ wChange = <<>>
    /\ wDropped = TRUE
    /\ wMulti = FALSE
    /\ wSent = 0
    /\ wApplies = 0
    /\ wConsumed = <<>>
    /\ wVfs0 = wVfs
    /\ wHost0 = wHost
    /\ wTick = "none"
    /\ wSeen = NotSeen

\* The notify thread sends a message.
WNotify ==
    /\ ~wDropped
    /\ wSent < MaxSent
    /\ \E msg \in WMessages : wChan' = Append(wChan, msg)
    /\ wSent' = wSent + 1
    /\ UNCHANGED <<wVfs, wHost, wTask, wFiles, wHas, wChange, wDropped, wMulti,
                   wApplies, wConsumed, wVfs0, wHost0, wTick>>
    /\ UNCHANGED wSeen
    /\ UNCHANGED cursorVars
    /\ UNCHANGED editVars
    /\ UNCHANGED engineVars
    /\ UNCHANGED resolveVars

\* interval.tick().await returns: a tick begins.
WTickBegins ==
    /\ wTask = "sleep"
    /\ wTask' = "recv"
    /\ wHas' = FALSE
    /\ wChange' = <<>>
    /\ wTick' = "fresh"
    /\ UNCHANGED <<wVfs, wHost, wChan, wFiles, wDropped, wMulti, wSent, wApplies,
                   wConsumed, wVfs0, wHost0>>
    /\ UNCHANGED wSeen
    /\ UNCHANGED cursorVars
    /\ UNCHANGED editVars
    /\ UNCHANGED engineVars
    /\ UNCHANGED resolveVars

\* A loop that applies its change at the end of every tick.
AfterDrainAlways(has_changes) == "apply"

\* if has_changes { host.lock().await ... }
AfterDrain(has_changes) == IF has_changes THEN "apply" ELSE "sleep"

\* The task is back at interval.tick().await, where an aborted task ends.
TickEnds(v, h) ==
    /\ wTask' = IF wDropped THEN "aborted" ELSE "sleep"
    /\ wHas' = FALSE
    /\ wChange' = <<>>
    /\ wConsumed' = <<>>
    /\ wVfs0' = v
    /\ wHost0' = h
    /\ wTick' = IF wTick = "fresh" THEN "empty" ELSE "some"

\* receiver.try_recv(): the next message, or the end of the while loop
WRecv ==
    /\ wTask = "recv"
    /\ IF wChan = <<>>
       THEN /\ IF AfterDrain(wHas) = "apply"
               THEN /\ wTask' = "apply"
                    /\ UNCHANGED <<wHas, wChange, wConsumed, wVfs0, wHost0, wTick>>
               ELSE TickEnds(wVfs, wHost)
            /\ UNCHANGED <<wChan, wFiles>>
       ELSE /\ wChan' = Tail(wChan)
            /\ wTick' = "msgs"
            /\ wHas' = (wHas \/ Head(wChan).kind # "Progress")
            /\ IF Head(wChan).files = <<>>
               THEN UNCHANGED <<wTask, wFiles>>
               ELSE /\ wTask' = "file"
                    /\ wFiles' = Head(wChan)
            /\ UNCHANGED <<wChange, wConsumed, wVfs0, wHost0>>
    /\ UNCHANGED <<wVfs, wHost, wDropped, wMulti, wSent, wApplies>>
    /\ UNCHANGED wSeen
    /\ UNCHANGED cursorVars
    /\ UNCHANGED editVars
    /\ UNCHANGED engineVars
    /\ UNCHANGED resolveVars

\* One (abs_path, contents) of a Loaded or Changed message, under the lock
\* of the Vfs: a Changed file goes to the Vfs, both kinds go to the change,
\* when the Vfs has a file id for the path.
WFileStep ==
    /\ wTask = "file"
    /\ LET f == Head(wFiles.files)
           known == vfs_file_id(wVfs, f.path)
       IN /\ wVfs' = IF known /\ wFiles.kind = "Changed"
                     THEN set_file_contents(wVfs, f.path, f.contents)
                     ELSE wVfs
          /\ wChange' = IF known
                        THEN Append(wChange, [path |-> f.path,
                                              text |-> text_contents(f.contents)])
                        ELSE wChange
          /\ wConsumed' = Append(wConsumed, f)
    /\ IF Tail(wFiles.files) = <<>>
       THEN /\ wTask' = "recv"
            /\ wFiles' = NoMessage
       ELSE /\ wTask' = "file"
            /\ wFiles' = WMessage(wFiles.kind, Tail(wFiles.files))
    /\ UNCHANGED <<wHost, wChan, wHas, wDropped, wMulti, wSent, wApplies,
                   wVfs0, wHost0, wTick>>
    /\ UNCHANGED wSeen
    /\ UNCHANGED cursorVars
    /\ UNCHANGED editVars
    /\ UNCHANGED engineVars
    /\ UNCHANGED resolveVars

\* host.apply_change(change) under the lock of the host, the end of the tick
WApply ==
    /\ wTask = "apply"
    /\ wHost' = apply_change(wHost, wChange)
    /\ wApplies' = wApplies + 1
    /\ TickEnds(wVfs, apply_change(wHost, wChange))
    /\ UNCHANGED <<wVfs, wChan, wFiles, wDropped, wMulti, wSent>>
    /\ UNCHANGED wSeen
    /\ UNCHANGED cursorVars
    /\ UNCHANGED editVars
    /\ UNCHANGED engineVars
    /\ UNCHANGED resolveVars

\* Drop for FileWatcher: task.abort(). A task that waits at an await ends
\* there; a task that is running on another thread (a runtime with worker
\* threads) runs on to its next await that does not return at once.
WDrop ==
    /\ ~wDropped
    /\ wMulti \/ wTask = "sleep"
    /\ wDropped' = TRUE
    /\ wTask' = IF wTask = "sleep" THEN "aborted" ELSE wTask
    /\ UNCHANGED <<wVfs, wHost, wChan, wFiles, wHas, wChange, wMulti, wSent,
                   wApplies, wConsumed, wVfs0, wHost0, wTick>>
    /\ UNCHANGED wSeen
    /\ UNCHANGED cursorVars
    /\ UNCHANGED editVars
    /\ UNCHANGED engineVars
    /\ UNCHANGED resolveVars

\* The aborted task finds the lock of the Vfs or of the host taken: its
\* lock().await does not return at once, and the task ends there.
WAbortAtLock ==
    /\ wDropped
    /\ wTask \in {"file", "apply"}
    /\ wTask' = "aborted"
    /\ UNCHANGED <<wVfs, wHost, wChan, wFiles, wHas, wChange, wDropped, wMulti,
                   wSent, wApplies, wConsumed, wVfs0, wHost0, wTick>>
    /\ UNCHANGED wSeen
    /\ UNCHANGED cursorVars
    /\ UNCHANGED editVars
    /\ UNCHANGED engineVars
    /\ UNCHANGED resolveVars

\* Another task (a query) takes the lock of the Vfs and the lock of the
\* host and reads a path. On a runtime without worker threads it runs only
\* while the watcher task waits.
WObserve ==
    /\ wSeen = NotSeen
    /\ wMulti \/ wTask \in {"sleep", "aborted"}
    /\ \E path \in WPaths :
          wSeen' = Seen(path, wVfs[path], wHost[path], wVfs0[path], wHost0[path])
    /\ UNCHANGED <<wVfs, wHost, wChan, wTask, wFiles, wHas, wChange, wDropped,
                   wMulti, wSent, wApplies, wConsumed, wVfs0, wHost0, wTick>>
    /\ UNCHANGED cursorVars
    /\ UNCHANGED editVars
    /\ UNCHANGED engineVars
    /\ UNCHANGED resolveVars

-----------------------------------------------------------------------------
(* What a plan's edits mean, stated without the builder: every range is    *)
(* taken in the content as read, and all ranges are replaced at once       *)

EditIndels(text, edits) ==
    [i \in 1..Len(edits) |->
        [s |-> line_col_to_offset_with_index(text, edits[i].line, edits[i].column),
         e |-> line_col_to_offset_with_index(text, edits[i].end_line, edits[i].end_column),
         ins |-> edits[i].new_text]]

\* No replacement of a non-empty range occurs twice among the edits.
NoRepeatedReplacement(text, edits) ==
    LET ix == EditIndels(text, edits)
    IN \A i, j \in 1..Len(ix) : (i # j /\ ix[i] = ix[j]) => ix[i].e = ix[i].s

\* The texts put at offset pos, in the order of the plan: those of the
\* insertions (empty ranges) when empty, that of the replacement otherwise.
RECURSIVE InsertedAt(_, _, _, _)
InsertedAt(ix, i, pos, empty) ==
    IF i > Len(ix) THEN <<>>
    ELSE (IF ix[i].s = pos /\ ((ix[i].e = pos) = empty)
          THEN ix[i].ins ELSE <<>>)
         \o InsertedAt(ix, i + 1, pos, empty)

RECURSIVE BodyFrom(_, _, _)
BodyFrom(text, ix, pos) ==
    IF pos > Len(text) THEN <<>>
    ELSE InsertedAt(ix, 1, pos, TRUE) \o InsertedAt(ix, 1, pos, FALSE)
         \o (IF pos < Len(text) /\ ~(\E i \in 1..Len(ix) : ix[i].s <= pos /\ pos < ix[i].e)
             THEN <<text[pos + 1]>> ELSE <<>>)
         \o BodyFrom(text, ix, pos + 1)

AtomicBody(text, edits) == BodyFrom(text, EditIndels(text, edits), 0)

\* An endpoint of the edit is no position of the file.
EditOutsideFile(text, e) ==
    \/ ~InFile(text, SatSub1(e.line), SatSub1(e.column))
    \/ ~InFile(text, SatSub1(e.end_line), SatSub1(e.end_column))

\* The first edit the loop cannot place is one with an endpoint outside the
\* file: those before it lie in the file, start before they end and do not
\* overlap.
FirstBadEditIsOutside(text, edits) ==
    \E i \in 1..Len(edits) :
        /\ EditOutsideFile(text, edits[i])
        /\ \A j \in 1..(i - 1) :
              /\ ~EditOutsideFile(text, edits[j])
              /\ EditIndels(text, edits)[j].s <= EditIndels(text, edits)[j].e
        /\ \A j1, j2 \in 1..(i - 1) :
              LET ix == EditIndels(text, edits)
              IN j1 # j2 => (ix[j1].e <= ix[j2].s \/ ix[j2].e <= ix[j1].s \/ ix[j1] = ix[j2])

DistinctPaths(plan) ==
    \A i, j \in 1..Len(plan) : i # j => plan[i].file_path # plan[j].file_path

EFailed == eOut.tag \in {"Err", "Panic"}

\* The content of path p when the loop reached file_change k of this call.
ContentBefore(k, p) ==
    LET W == {j \in 1..(k - 1) : j <= Len(eLog) /\ eLog[j].path = p}
    IN IF W = {} THEN eDisk1[p]
       ELSE eLog[CHOOSE j \in W : \A i \in W : i <= j].content

-----------------------------------------------------------------------------
(* Specifications *)

CursorNext == ValidateAndConvert \/ NextCursor

InitCursor == CursorInit /\ EditIdle /\ EngineIdle /\ ResolveIdle /\ WatchIdle

SpecCursor == InitCursor /\ [][CursorNext]_vars

EditNext == ApplyNextFile \/ ApplyReturnOk \/ ApplyAgain

InitEdit == EditInit /\ CursorIdle /\ EngineIdle /\ ResolveIdle /\ WatchIdle

SpecEdit == InitEdit /\ [][EditNext]_vars

ResolveNext == ResolveCoordinates \/ ResolveAgain

InitResolve == ResolveInit /\ CursorIdle /\ EditIdle /\ EngineIdle /\ WatchIdle

SpecResolve == InitResolve /\ [][ResolveNext]_vars

WatchNext ==
    \/ WNotify
    \/ WObserve
    \/ WTickBegins
    \/ WRecv
    \/ WFileStep
    \/ WApply
    \/ WDrop
    \/ WAbortAtLock

InitWatch == WatchInit /\ CursorIdle /\ EditIdle /\ EngineIdle /\ ResolveIdle

SpecWatch == InitWatch /\ [][WatchNext]_vars

Next ==
    \/ GetDefinition
    \/ GetRenameInfo
    \/ RenameSymbol
    \/ FindReferences
    \/ ViewInlayHints
    \/ ExternalWrite
    \/ WatcherDrain
    \/ WatcherApply

Init == EngineInit /\ CursorIdle /\ EditIdle /\ ResolveIdle /\ WatchIdle

Spec == Init /\ [][Next]_vars

-----------------------------------------------------------------------------
(* C2: validate_and_convert_cursor rejects every cursor with line = 0 or   *)
(* column = 0 with an invalid-coordinates error, rejects every cursor      *)
(* whose 0-based (line-1, column-1) does not lie within the file with an   *)
(* out-of-bounds error, and returns a byte offset only for the remaining   *)
(* cursors.                                                                *)
C2_RejectsAllBadCursors ==
    cResult # NoResult =>
        /\ (cCursor.line = 0 \/ cCursor.column = 0)
              => cResult = Err("InvalidCoordinates")
        /\ (cCursor.line >= 1 /\ cCursor.column >= 1
              /\ ~InFile(cText, cCursor.line - 1, cCursor.column - 1))
              => cResult = Err("OutOfBounds")
        /\ cResult.tag = "Ok"
              => /\ cCursor.line >= 1 /\ cCursor.column >= 1
                 /\ InFile(cText, cCursor.line - 1, cCursor.column - 1)

-----------------------------------------------------------------------------
(* C6: apply_rename_edits processes the plan's files in list order; if     *)
(* processing file k fails (file unreadable, an edit endpoint outside the  *)
(* file, or write failure) the call returns that error, every file before  *)
(* k has already been written with all of its edits, and all files after   *)
(* k are unchanged on disk; when the failure is a read error or an invalid *)
(* edit position, file k itself is unchanged too. Stated for plans that    *)
(* name every file once.                                                   *)
C6_PartialFailureReturnsError ==
    (DistinctPaths(ePlan) /\ EFailed) =>
        LET fc == ePlan[eIdx]
            t == eDisk1[fc.file_path]
        IN /\ t = Missing => eOut = Err("FileIORead")
           /\ (t # Missing /\ FirstBadEditIsOutside(t, fc.edits))
                 => eOut = Err("InvalidEditPosition")
           /\ \A j \in 1..(eIdx - 1) :
                 eDisk[ePlan[j].file_path]
                    = EditText(eDisk1[ePlan[j].file_path], ePlan[j].edits).val
           /\ \A j \in (eIdx + 1)..Len(ePlan) :
                 eDisk[ePlan[j].file_path] = eDisk1[ePlan[j].file_path]
           /\ eOut \in {Err("FileIORead"), Err("InvalidEditPosition")}
                 => eDisk[fc.file_path] = t

C8_SecondApplicationChangesNothing ==
    (ePass = 2 /\ eOut = Ok("unit")) => eDisk = eDisk1

-----------------------------------------------------------------------------
(* C1: once a query has loaded project root R on an engine, every later    *)
(* query whose file resolves to a different project root fails with an     *)
(* error and leaves the loaded root, the VFS and the database host as they *)
(* were; a later query whose file resolves to R gets its Analysis from     *)
(* ensure_project_loaded without a reload of the workspace.                *)
C1_SecondRootRejected ==
    [][ (qn' = qn + 1 /\ root # NoRoot) =>
          LET pr == find_project_root(disk, last'.path)
          IN /\ (pr.tag = "Ok" /\ pr.val # root) =>
                   /\ last'.result = Err("WorkspaceAlreadyLoaded")
                   /\ root' = root /\ vfs' = vfs /\ host' = host
                   /\ loads' = loads
             /\ (pr.tag = "Ok" /\ pr.val = root) =>
                   /\ last'.snapTaken
                   /\ last'.snap = host
                   /\ loads' = loads /\ root' = root ]_vars

C1_Witness ==
    /\ qn = 2
    /\ loads = 1
    /\ root = "r1"
    /\ last.path = "r2/c"
    /\ last.result = Err("WorkspaceAlreadyLoaded")

(* C3: if the database's goto_definition panics, get_definition returns    *)
(* Ok(None) instead of propagating the panic and the engine stays usable:  *)
(* the root, the VFS and the host are as they were when the call was made, *)
(* the query has changed nothing but what its preamble changes, and the    *)
(* engine takes further queries.                                           *)
C3_PanicContained ==
    [][ (qn' = qn + 1 /\ last'.op = "get_definition" /\ last'.db = "panic") =>
          /\ last'.result = Ok(OptNone)
          /\ ~hung'
          /\ [root |-> root', vfs |-> vfs', host |-> host'] = last'.engine
          /\ disk' = disk /\ chan' = chan
          /\ \E loadOk \in BOOLEAN, attach \in BOOLEAN, manual \in ManualOutcomes :
                LET pre == Preamble(Engine, disk, last'.path, last'.cursor,
                                    loadOk, attach, manual)
                IN /\ pre.out.tag = "Ok"
                   /\ pre.e = [root |-> root', vfs |-> vfs', host |-> host',
                               loads |-> loads', watcher |-> watcher',
                               staged |-> staged',
                               loadCalls |-> loadCalls'] ]_vars

C3_Witness ==
    /\ last.op = "get_definition"
    /\ last.db = "panic"
    /\ last.result = Ok(OptNone)
    /\ root = "r1"
    /\ ~hung

(* C4: a query started after rename_symbol has written its edits to disk   *)
(* and returned is answered from database contents that include those      *)
(* edits (as long as they are still what the disk holds).                  *)
C4_LaterQuerySeesRenameEdits ==
    (last.snapTaken /\ last.db # "-" /\ wroteAt > 0 /\ qn > wroteAt) =>
        \A p \in Files : wrote[p] # NoWrite => last.snap[p] = wrote[p]

(* C5: within one query the database snapshot advances only in the         *)
(* preamble: once the query has its Analysis snapshot, no change is        *)
(* applied to the host until the query returns, so the host the query      *)
(* leaves holds what its snapshot holds.                                   *)
C5_NoChangeAfterSnapshot ==
    last.snapTaken => last.engine.host = last.snap

\* The plan is the database's SourceChange: same files in the same order,
\* and every edit leads back to the byte range it was converted from.
PlanMatchesChange(plan, change, snap) ==
    /\ Len(plan) = Len(change)
    /\ \A k \in 1..Len(plan) :
          /\ plan[k].file_path = change[k].file
          /\ Len(plan[k].edits) = Len(change[k].indels)
          /\ \A i \in 1..Len(plan[k].edits) :
                LET e == plan[k].edits[i]
                    x == change[k].indels[i]
                    t == snap[change[k].file]
                IN /\ line_col_to_offset_with_index(t, e.line, e.column) = x.s
                   /\ line_col_to_offset_with_index(t, e.end_line, e.end_column) = x.e
                   /\ e.new_text = x.ins

(* C9: get_rename_info never modifies a file on disk and returns the       *)
(* database's plan; rename_symbol runs the edit applier only when the      *)
(* database produced a plan, writes only files named in that plan, and     *)
(* returns the plan it applied; with no plan no file is written.           *)
C9_PlanOnlyWritesNothing ==
    [][ (qn' = qn + 1 /\ last'.op \in {"get_rename_info", "rename_symbol"}) =>
          /\ last'.op = "get_rename_info" => disk' = disk
          /\ last'.plan = <<>> => (disk' = disk /\ last'.log = <<>>)
          /\ (last'.db = "ok") <=> (last'.plan # <<>>)
          /\ last'.db = "ok" => PlanMatchesChange(last'.plan, last'.change, last'.snap)
          /\ \A p \in Files :
                disk'[p] # disk[p] =>
                    \E k \in 1..Len(last'.plan) : last'.plan[k].file_path = p
          /\ \A i \in 1..Len(last'.log) :
                \E k \in 1..Len(last'.plan) : last'.plan[k].file_path = last'.log[i].path
          /\ (last'.result.tag = "Ok" /\ last'.plan # <<>>) =>
                /\ last'.result = Ok(Some(last'.plan))
                /\ last'.op = "rename_symbol" =>
                      /\ Len(last'.log) = Len(last'.plan)
                      /\ \A k \in 1..Len(last'.plan) :
                            /\ last'.log[k].path = last'.plan[k].file_path
                            /\ last'.log[k].content
                                 = EditText(disk[last'.plan[k].file_path],
                                            last'.plan[k].edits).val ]_vars

C9_Witness ==
    /\ last.op = "rename_symbol"
    /\ last.db = "ok"
    /\ Len(last.plan) = 2
    /\ last.result = Ok(Some(last.plan))
    /\ \E k \in 1..2 : last.plan[k].edits[1].line = 2
    /\ \A k \in 1..2 : disk[last.plan[k].file_path] = last.log[k].content

(* C10: a rename returns None when the database's verdict is that a rename *)
(* is not possible at the position, and Err(RenameFailed) when the         *)
(* database attempted the rename and rejected it; the two are never        *)
(* conflated.                                                              *)
C10_RejectedRenameIsAnError ==
    (last.op \in {"get_rename_info", "rename_symbol"}) =>
        /\ last.db = "not_possible" => last.result = Ok(OptNone)
        /\ last.db = "rejected" => last.result = Err("RenameFailed")

-----------------------------------------------------------------------------
(* C11: every list returned by find_references is sorted ascending by      *)
(* (file_path, line, column), whatever order the database emitted the      *)
(* declaration and the use sites in.                                       *)
ReturnedReferences ==
    IF last.op = "find_references" /\ last.result.tag = "Ok"
       /\ last.result.val.opt = "Some"
    THEN last.result.val.v ELSE <<>>

C11_ReferencesSorted ==
    \A i, j \in 1..Len(ReturnedReferences) :
        i < j =>
           LET a == ReturnedReferences[i]
               b == ReturnedReferences[j]
           IN \/ PathRank(a.file_path) < PathRank(b.file_path)
              \/ a.file_path = b.file_path /\ a.line < b.line
              \/ a.file_path = b.file_path /\ a.line = b.line /\ a.column <= b.column

\* The database gave a use site in r1/b before two use sites of r1/a in
\* descending order, and the declaration; the list returned has all four.
C11_Witness ==
    /\ Len(ReturnedReferences) = 4
    /\ Len(last.change) = 1
    /\ Len(last.change[1].references) = 2
    /\ last.change[1].references[1].file = "r1/b"
    /\ last.change[1].references[2].ranges = <<2, 0>>
    /\ ReturnedReferences[1].file_path = "r1/a"
    /\ \E i \in 1..4 : ReturnedReferences[i].is_definition

(* C12: find_references returns Err(NoReferences) whenever the query       *)
(* yields zero reference records (the database gave search results with no *)
(* declaration and no use site, or none at all), and never returns a       *)
(* successful result holding an empty list.                                *)
YieldsNoRecord(results) ==
    \A i \in 1..Len(results) :
        /\ results[i].declaration = OptNone
        /\ \A g \in 1..Len(results[i].references) :
              results[i].references[g].ranges = <<>>

C13_UnknownPathIsRejectedUntouched ==
    (last.op # "none" /\ last.snapTaken /\ last.vfs0[last.path] = Absent) =>
        /\ last.result = Err("FileNotInWorkspace")
        /\ last.engine.vfs = last.vfs0
        /\ last.engine.host = last.snap

-----------------------------------------------------------------------------
(* What the claims about resolve_coordinates speak of *)

RLines == Lines(rText)

\* symbol stands at the 1-based column col of line
OccursAt(line, symbol, col) ==
    /\ col >= 1
    /\ col + Len(symbol) - 1 <= Len(line)
    /\ SubSeq(line, col, col + Len(symbol) - 1) = symbol

ContainsSymbol(line, symbol) ==
    \E col \in 1..(Len(line) + 1) : OccursAt(line, symbol, col)

FirstOccurrence(line, symbol) ==
    CHOOSE col \in 1..(Len(line) + 1) :
        /\ OccursAt(line, symbol, col)
        /\ \A c \in 1..(Len(line) + 1) : OccursAt(line, symbol, c) => col <= c

\* The lines of the file within TOLERANCE of the requested line that
\* contain the symbol
CandidatesWithSymbol ==
    {x \in 1..Len(RLines) :
        /\ AbsDiff(x, rCursor.line) <= TOLERANCE
        /\ ContainsSymbol(RLines[x], rCursor.symbol.v)}

SymbolSet == rCursor.symbol.opt = "Some"
Returned == rResult.tag = "Ok"

(* C15: for every file content and every cursor with symbol set, the line  *)
(* returned by resolve_coordinates is within 5 of the requested line, and  *)
(* when a match was found it is an existing line of the file.              *)
C15_ReturnedLineWithinTolerance ==
    (SymbolSet /\ Returned) =>
        /\ AbsDiff(rResult.val.line, rCursor.line) <= 5
        /\ rFound => rResult.val.line \in 1..Len(RLines)

C17_NearestCandidateWins ==
    (SymbolSet /\ rResult # NoResult /\ CandidatesWithSymbol # {}) =>
        /\ Returned /\ rFound
        /\ rResult.val.line \in CandidatesWithSymbol
        /\ \A x \in CandidatesWithSymbol :
              \/ AbsDiff(rResult.val.line, rCursor.line) < AbsDiff(x, rCursor.line)
              \/ /\ AbsDiff(rResult.val.line, rCursor.line) = AbsDiff(x, rCursor.line)
                 /\ rResult.val.line >= x

(* C18: on the requested line, the returned column is the 1-based start    *)
(* column of the occurrence of the symbol nearest to the requested column  *)
(* if that distance is at most 5 (the leftmost such occurrence on ties),   *)
(* and otherwise the first occurrence on that line; on any other candidate *)
(* line it is the first occurrence on the line.                            *)
C18_ColumnOfTheMatch ==
    (Returned /\ rFound) =>
        LET l == RLines[rResult.val.line]
            sym == rCursor.symbol.v
            occ == {c \in 1..(Len(l) + 1) : OccursAt(l, sym, c)}
            near == {c \in occ : \A d \in occ :
                        AbsDiff(c, rCursor.column) <= AbsDiff(d, rCursor.column)}
            nearest == CHOOSE c \in near : \A d \in near : c <= d
        IN IF rResult.val.line = rCursor.line
              /\ AbsDiff(nearest, rCursor.column) <= 5
           THEN rResult.val.column = nearest
           ELSE rResult.val.column = FirstOccurrence(l, sym)

\* On the requested line the nearest occurrence is returned, and it is not
\* the first occurrence on the line.
C18_Witness ==
    /\ Returned /\ rFound
    /\ rResult.val.line = rCursor.line
    /\ rResult.val.column # FirstOccurrence(RLines[rCursor.line], rCursor.symbol.v)
    /\ rResult.val.column # rCursor.column

(* C19: if symbol is not set, or no candidate line contains the symbol,    *)
(* resolve_coordinates returns coordinates equal to its input in           *)
(* file_path, line, column and symbol; and in every case the returned      *)
(* file_path and symbol equal the input's.                                 *)
C19_UnchangedWhenNothingFound ==
    rResult # NoResult =>
        /\ (~SymbolSet \/ CandidatesWithSymbol = {}) => rResult = Ok(rCursor)
        /\ Returned => /\ rResult.val.file_path = rCursor.file_path
                       /\ rResult.val.symbol = rCursor.symbol

-----------------------------------------------------------------------------
(* C14: in every cursor-based query, when cursor.symbol is set, the byte   *)
(* offset sent to the database is that of the coordinates refined by the   *)
(* symbol search (resolve_coordinates), not that of the raw line and       *)
(* column.                                                                 *)
C14_OffsetOfRefinedCoordinates ==
    (last.op # "none" /\ last.offset.tag = "Ok" /\ last.cursor.symbol.opt = "Some") =>
        \E checks \in BOOLEAN :
            LET r == resolve_coordinates(
                        [file_path |-> last.path, line |-> last.cursor.line,
                         column |-> last.cursor.column, symbol |-> last.cursor.symbol],
                        last.snap[last.path], checks)
            IN /\ r.tag = "Ok"
               /\ last.offset = validate_and_convert_cursor(r.val, last.snap[last.path])

(* C20: after every drain-and-apply step of the watcher, the VFS's staged  *)
(* change set is empty and the set of file changes applied to the database *)
(* in that step is exactly the set that was staged in the VFS.             *)
C20_ApplyDrainsTheStagedSet ==
    [][(wpc = "apply" /\ wpc' = "idle") =>
          /\ staged' = {}
          /\ {p \in Files : wchange[p] # NoChange} = staged]_vars

(* C25 (as stated): over any sequence of queries on one engine, queries    *)
(* that fail included, load_workspace is invoked at most once.             *)
C25_LoaderInvokedAtMostOnce ==
    loadCalls <= 1

(* C25 (amended): load_workspace succeeds at most once on one engine, and  *)
(* once it has succeeded no later query invokes it again, whether that     *)
(* query fails or not; a query made while no invocation has succeeded      *)
(* invokes it again.                                                       *)
C25_LoaderSucceedsAtMostOnce ==
    [][ /\ loads' <= 1
        /\ loads = 1 => loadCalls' = loadCalls
        /\ (qn' = qn + 1 /\ loads = 0
              /\ find_project_root(disk, last'.path).tag = "Ok")
             => loadCalls' = loadCalls + 1 ]_vars

C25_Witness ==
    /\ qn = 2
    /\ loads = 1
    /\ loadCalls = 1
    /\ last.result.tag = "Err"

(* C26: get_definition returns None whenever the database yields no        *)
(* navigation targets; it never returns Some of an empty list.             *)
C26_NoTargetsIsNone ==
    (last.op = "get_definition" /\ last.result.tag = "Ok")
        => last.result.val # Some(<<>>)

(* The call of view_inlay_hints that last is the record of got its hints   *)
(* and was given both ends of a range                                      *)
HintsSliced ==
    /\ last.op = "view_inlay_hints"
    /\ last.db = "hints"
    /\ last.range[1].opt = "Some"
    /\ last.range[2].opt = "Some"

\* The lines of the annotated file of that call
HintsLines == Lines(AnnotatedText(last.snap[last.path], last.change).val)

MaxOf(a, b) == IF a >= b THEN a ELSE b

(* C27 (as stated): view_inlay_hints returns Err(RangeOutOfBounds) for     *)
(* every (start_line, end_line) with start_line < 1, start_line > end_line *)
(* or end_line greater than the number of lines, and for every range       *)
(* inside the file exactly the lines start_line..end_line.                 *)
C27_RangeInsideFileOrError ==
    HintsSliced =>
        LET s == last.range[1].v
            e == last.range[2].v
        IN IF s < 1 \/ s > e \/ e > Len(HintsLines)
           THEN last.result = Err("RangeOutOfBounds")
           ELSE last.result = Ok(JoinLines(SubSeq(HintsLines, s, e)))

(* C27 (amended): view_inlay_hints returns Err(RangeOutOfBounds) exactly   *)
(* when max(start_line, 1) is greater than the number of lines or          *)
(* end_line < max(start_line, 1); for every other pair it returns the      *)
(* lines max(start_line, 1) .. min(end_line, number of lines), which for a *)
(* range inside the file are exactly the lines start_line..end_line.       *)
C27_RangeClampedToFile ==
    HintsSliced =>
        LET s == MaxOf(last.range[1].v, 1)
            e == last.range[2].v
            n == Len(HintsLines)
        IN IF s > n \/ e < s
           THEN last.result = Err("RangeOutOfBounds")
           ELSE last.result = Ok(JoinLines(SubSeq(HintsLines, s, MinOf(e, n))))

C27_Witness ==
    /\ HintsSliced
    /\ last.range = <<Some(1), Some(3)>>
    /\ Len(HintsLines) = 2
    /\ last.change # <<>>
    /\ last.result.tag = "Ok"

(* C30: for every 32-bit line and column, line 0 and the lines within 5 of *)
(* the u32 maximum included, and every file content, the candidate-line    *)
(* arithmetic of resolve_coordinates stays in range: no line + k wraps or  *)
(* overflows, no candidate line number 0 is decremented, and the call      *)
(* returns coordinates instead of aborting. Stated for the calls with a    *)
(* non-empty symbol, where the arithmetic is all that can abort.           *)
C30_CandidateArithmeticInRange ==
    (rResult # NoResult /\ rCursor.symbol.opt = "Some" /\ rCursor.symbol.v # <<>>) =>
        LET lr == line_range(rCursor.line, Len(Lines(rText)), rChecks)
        IN /\ ~lr.panic
           /\ \A i \in 1..Len(lr.r) :
                 /\ lr.r[i] >= 1
                 /\ AbsDiff(lr.r[i], rCursor.line) <= TOLERANCE
           /\ rResult # Panic

-----------------------------------------------------------------------------
(* The watcher task: what its ticks receive and what they leave behind     *)

\* The paths named in the files the tick in progress has received
ReceivedPaths == {wConsumed[i].path : i \in 1..Len(wConsumed)}

\* The contents last received for a path in the tick in progress
LastReceived(path) ==
    LET I == {i \in 1..Len(wConsumed) : wConsumed[i].path = path}
    IN wConsumed[CHOOSE i \in I : \A j \in I : j <= i].contents

\* The text the change holds last for a path
LastChanged(path) ==
    LET I == {i \in 1..Len(wChange) : wChange[i].path = path}
    IN wChange[CHOOSE i \in I : \A j \in I : j <= i].text

HostOf(text) == IF text.opt = "None" THEN HostNone ELSE HostText(text.v)
VfsOf(contents) ==
    IF contents.opt = "None" THEN VfsDeleted ELSE VfsExists(contents.v)

\* a is b with some of its elements left out
RECURSIVE IsSubseq(_, _)
IsSubseq(a, b) ==
    IF a = <<>> THEN TRUE
    ELSE IF b = <<>> THEN FALSE
    ELSE IF Head(a) = Head(b) THEN IsSubseq(Tail(a), Tail(b))
    ELSE IsSubseq(a, Tail(b))

\* The step that takes one file of the message in hand
ReceiveStep == wTask = "file" /\ wConsumed' # wConsumed

\* The step that applies the change of a tick
ApplyStep == wTask = "apply" /\ wApplies' = wApplies + 1

(* C21: the events of one path are applied in the order in which they were *)
(* received, and when a path appears several times among the messages of   *)
(* one drain, the content the database holds for it after the drain is the *)
(* last content received for it. Stated for the paths the database holds.  *)
C21_LastContentReceivedWins ==
    [][ ApplyStep =>
          /\ IsSubseq(wChange,
                      [i \in 1..Len(wConsumed) |->
                          [path |-> wConsumed[i].path,
                           text |-> text_contents(wConsumed[i].contents)]])
          /\ \A path \in ReceivedPaths :
                wHost[path] # HostAbsent =>
                    wHost'[path] = HostOf(text_contents(LastReceived(path))) ]_vars

(* C22: a drain that follows another with no message arrived in between,   *)
(* and so finds the channel empty, applies no change to the host and       *)
(* changes nothing in the Vfs.                                             *)
C22_EmptyDrainChangesNothing ==
    [][ (wTask = "recv" /\ wTick = "fresh" /\ wChan = <<>> /\ wTask' # "recv") =>
          /\ wTask' \in {"sleep", "aborted"}
          /\ wApplies' = wApplies
          /\ wVfs' = wVfs
          /\ wHost' = wHost ]_vars

C22_Witness ==
    /\ wTick = "empty"
    /\ wTask = "sleep"
    /\ wApplies >= 1
    /\ wChan = <<>>

\* Bytes that are not UTF-8
NotUtf8(contents) ==
    contents.opt = "Some" /\ \E i \in 1..Len(contents.v) : contents.v[i] >= 128

(* C23: when a Changed message carries bytes that are not UTF-8 for a file *)
(* of the Vfs, the Vfs records those bytes and the change gets None for    *)
(* the file; when the change is applied the database holds None for it,    *)
(* and every other file of the change is applied as usual.                 *)
C23_BadBytesGiveNone ==
    [][ /\ (/\ ReceiveStep
            /\ wFiles.kind = "Changed"
            /\ NotUtf8(Head(wFiles.files).contents)
            /\ vfs_file_id(wVfs, Head(wFiles.files).path)) =>
              /\ wVfs' = [wVfs EXCEPT ![Head(wFiles.files).path] =
                                 VfsExists(Head(wFiles.files).contents.v)]
              /\ wChange' = Append(wChange, [path |-> Head(wFiles.files).path,
                                             text |-> OptNone])
        /\ ApplyStep =>
              \A path \in WPaths :
                 wHost'[path] =
                    IF \E i \in 1..Len(wChange) : wChange[i].path = path
                    THEN HostOf(LastChanged(path))
                    ELSE wHost[path] ]_vars

C23_Witness ==
    /\ wApplies = 1
    /\ wVfs["p"] = VfsExists(BytesBad)
    /\ wHost["p"] = HostNone
    /\ wVfs["q"] = VfsExists(BytesB)
    /\ wHost["q"] = HostText(<<"b">>)

(* C24: after the FileWatcher is dropped its task updates the Vfs no more  *)
(* and applies no further change to the host, so that the messages still   *)
(* in the channel at that moment are never applied.                        *)
C24_NothingAfterDrop ==
    [][ wDropped => /\ wVfs' = wVfs
                    /\ wHost' = wHost
                    /\ wApplies' = wApplies ]_vars

(* C28: for every (path, content) of a Loaded or Changed message that a    *)
(* drain has received, the Vfs holds, when the drain is over, the content  *)
(* last received for that path, whether the Vfs knew the path or not.      *)
C28_DrainRecordsInVfs ==
    wTask = "apply" =>
        \A path \in ReceivedPaths : wVfs[path] = VfsOf(LastReceived(path))

(* C29: no task that takes the lock of the Vfs or of the host sees the Vfs *)
(* hold a file's new content while the host still holds the content it had *)
(* before the tick.                                                        *)
C29_NoTornBatch ==
    wSeen # NotSeen =>
        ~ /\ wSeen.vfs # wSeen.vfs0
          /\ wSeen.host = wSeen.host0
          /\ wSeen.host # (IF wSeen.vfs.st = "Exists"
                           THEN HostOf(from_utf8(wSeen.vfs.bytes))
                           ELSE HostNone)


====
